---- MODULE Spec2Model ----
(***************************************************************************)
(* A model of aingel: the chat-completion stream client                    *)
(* (LLMClient.chatStream), the tool dispatcher (executeTool, isPathSafe)   *)
(* and the turn orchestrator (Repl).                                       *)
(*                                                                         *)
(* Text is a sequence of tokens.  A token is a record [c, json]: c is the  *)
(* character (or character group) and json is the decoded value of a JSON  *)
(* object body when c = "json".  Strings that the program concatenates     *)
(* (content, tool-call arguments) are sequences of one-character strings.  *)
(***************************************************************************)
EXTENDS Integers, Sequences, FiniteSets, TLC

VARIABLES
  model,         \* LLMClient.model: NoModel (null) or a model id
  csPc,          \* position of the running chatStream generator
  csError,       \* the message of the Error the generator threw, "" when none
  buffer,        \* chatStream: let buffer (the carry-over of the line splitter)
  toolCallsMap,  \* chatStream: toolCallsMap, in insertion order
  events,        \* what chatStream has yielded so far in this invocation
  text,          \* the whole response body the server sends
  pos,           \* how much of text reader.read() has returned so far
  wire,          \* the payloads the server has sent in this response, in order
  fs,            \* the file system: absolute path -> node
  toolPc,        \* position of the running executeTool call
  toolCall,      \* its parameters: [name, args]
  toolResult,    \* the ToolResult it returned
  toolLog,       \* what the call did: [touched, executed, threw, skipped]
  history,       \* Repl.history
  replPc,        \* where the Repl stands
  fullContent,   \* getResponse: let fullContent
  toolCalls,     \* getResponse: let toolCalls
  callIdx,       \* getResponse: which toolCall the for loop is at
  turnStart,     \* the history when the running chatStream call was made
  round,         \* which model turn of the running processMessage this is
  turns          \* chatStream calls made in this session

streamVars == <<model, csPc, csError, buffer, toolCallsMap, events, text, pos, wire>>
toolVars == <<fs, toolPc, toolCall, toolResult, toolLog>>
replVars == <<history, replPc, fullContent, toolCalls, callIdx, turnStart, round, turns>>
vars == <<streamVars, toolVars, replVars>>

----------------------------------------------------------------------------
(* Bounds *)

MaxPayloads == 3   \* payload lines one response carries (payload-level runs)
MaxLines == 2      \* lines of a response body (character-level runs)
MaxTurns == 2      \* chatStream calls of one Repl session
ManyLines == 101   \* lines of the longest file of the project

----------------------------------------------------------------------------
(* Values *)

NoModel == "null"

EmptyPayload ==
  [choices |-> "one", content |-> <<>>, tool_calls |-> <<>>, finish_reason |-> ""]

\* A plain character, and the body of a JSON object that decodes to p.
Tok(c) == [c |-> c, json |-> EmptyPayload]
JTok(p) == [c |-> "json", json |-> p]

NL == Tok("\n")
Whitespace == {Tok(" "), Tok("\r")}
DataPrefix == <<Tok("data:"), Tok(" ")>>
DoneLine == DataPrefix \o <<Tok("[DONE]")>>

\* delta.tool_calls[k]: id, name and arguments are "" / <<>> when absent.
Fragment(index, id, name, arguments) ==
  [index |-> index, id |-> id, name |-> name, arguments |-> arguments]

ContentPayload(s) == [EmptyPayload EXCEPT !.content = s]
ToolPayload(frags) == [EmptyPayload EXCEPT !.tool_calls = frags]
FinishPayload(reason) == [EmptyPayload EXCEPT !.finish_reason = reason]

\* The line "data: {...}\n" whose JSON object decodes to p.
DataLine(p) == DataPrefix \o <<Tok("{"), JTok(p), Tok("}"), NL>>

----------------------------------------------------------------------------
(* String helpers, as the JavaScript built-ins compute them *)

Last(s) == s[Len(s)]

RECURSIVE TrimLeft(_, _)
TrimLeft(s, ws) ==
  IF s # <<>> /\ Head(s) \in ws THEN TrimLeft(Tail(s), ws) ELSE s

RECURSIVE TrimRight(_, _)
TrimRight(s, ws) ==
  IF s # <<>> /\ s[Len(s)] \in ws
  THEN TrimRight(SubSeq(s, 1, Len(s) - 1), ws)
  ELSE s

\* String.prototype.trim, on wire text and on file text.
Trim(s) == TrimRight(TrimLeft(s, Whitespace), Whitespace)
TrimText(s) == TrimRight(TrimLeft(s, {" ", "\r"}), {" ", "\r"})

\* String.prototype.startsWith
StartsWith(s, prefix) ==
  Len(s) >= Len(prefix) /\ SubSeq(s, 1, Len(prefix)) = prefix

RECURSIVE SplitRange(_, _, _, _)
\* The segments of s[lo..hi] between the separators, by halves: the last
\* segment of the left half continues in the first of the right half.
SplitRange(s, sep, lo, hi) ==
  IF lo > hi THEN << <<>> >>
  ELSE IF lo = hi THEN (IF s[lo] = sep THEN << <<>>, <<>> >> ELSE << <<s[lo]>> >>)
  ELSE LET mid == (lo + hi) \div 2
           left == SplitRange(s, sep, lo, mid)
           right == SplitRange(s, sep, mid + 1, hi)
       IN  SubSeq(left, 1, Len(left) - 1)
             \o <<left[Len(left)] \o right[1]>>
             \o SubSeq(right, 2, Len(right))

\* String.prototype.split('\n'): always at least one segment.
Split(s) == SplitRange(s, NL, 1, Len(s))
SplitText(s) == SplitRange(s, "\n", 1, Len(s))

\* JSON.parse of a line's body: [ok, value].  Only "{" json "}" is a JSON
\* document; anything else throws (ok = FALSE).
ParseJSON(body) ==
  IF Len(body) = 3 /\ body[1] = Tok("{") /\ body[2].c = "json" /\ body[3] = Tok("}")
  THEN [ok |-> TRUE, value |-> body[2].json]
  ELSE [ok |-> FALSE, value |-> EmptyPayload]

----------------------------------------------------------------------------
(* chatStream: the tool-call accumulator *)

RECURSIVE IndexPos(_, _, _)
IndexPos(map, index, k) ==
  IF k > Len(map) THEN 0
  ELSE IF map[k].index = index THEN k
  ELSE IndexPos(map, index, k + 1)

\* toolCallsMap.get(index): the position of the record, 0 when absent.
MapGet(map, index) == IndexPos(map, index, 1)

\* The three conditional assignments on the existing record.
\* A variant that keeps only the latest arguments chunk.
UpdateRecordReplacing(existing, tc) ==
  [existing EXCEPT
     !.id = IF tc.id # "" THEN tc.id ELSE @,
     !.name = IF tc.name # "" THEN tc.name ELSE @,
     !.arguments = IF tc.arguments # <<>> THEN tc.arguments ELSE @]

UpdateRecord(existing, tc) ==
  [existing EXCEPT
     !.id = IF tc.id # "" THEN tc.id ELSE @,
     !.name = IF tc.name # "" THEN tc.name ELSE @,
     !.arguments = IF tc.arguments # <<>> THEN @ \o tc.arguments ELSE @]

\* A variant that opens a record for every fragment.
MergeFragmentAppending(map, tc) ==
  Append(map, [index |-> tc.index, id |-> tc.id, name |-> tc.name,
               arguments |-> tc.arguments])

\* One iteration of  for (const tc of delta.tool_calls).
MergeFragment(map, tc) ==
  LET k == MapGet(map, tc.index)
      created == [index |-> tc.index, id |-> tc.id, name |-> tc.name,
                  arguments |-> <<>>]
      map1 == IF k = 0 THEN Append(map, created) ELSE map
      k1 == IF k = 0 THEN Len(map1) ELSE k
  IN  [map1 EXCEPT ![k1] = UpdateRecord(map1[k1], tc)]

RECURSIVE MergeFragments(_, _)
MergeFragments(map, frags) ==
  IF frags = <<>> THEN map
  ELSE MergeFragments(MergeFragment(map, Head(frags)), Tail(frags))

\* Array.from(toolCallsMap.values()): the records in insertion order.
MapValues(map) == map

ContentEvent(s) ==
  [type |-> "content", content |-> s, tool_calls |-> <<>>]
\* The yielded array holds the map's own record objects; tool_calls is what
\* they hold when the event is yielded.
ToolCallsEvent(records) ==
  [type |-> "tool_calls", content |-> <<>>, tool_calls |-> records]

\* A variant that yields the text of a payload after its tool calls.
ProcessPayloadContentLast(st, json) ==
  IF json.choices = "missing" THEN st
  ELSE IF json.choices = "empty" THEN st
  ELSE
    LET map1 == MergeFragments(st.map, json.tool_calls)
        calls == MapValues(map1)
        ev1 == IF json.finish_reason = "tool_calls" /\ Len(calls) > 0
               THEN Append(st.events, ToolCallsEvent(calls))
               ELSE st.events
        ev2 == IF json.content # <<>>
               THEN Append(ev1, ContentEvent(json.content))
               ELSE ev1
    IN  [map |-> map1, events |-> ev2]

\* The body of the try block for one decoded payload; st = [map, events].
ProcessPayload(st, json) ==
  IF json.choices = "missing" THEN st          \* json.choices[0] throws
  ELSE IF json.choices = "empty" THEN st       \* if (!choice) continue
  ELSE
    LET ev1 == IF json.content # <<>>
               THEN Append(st.events, ContentEvent(json.content))
               ELSE st.events
        map1 == MergeFragments(st.map, json.tool_calls)
        calls == MapValues(map1)
        ev2 == IF json.finish_reason = "tool_calls" /\ Len(calls) > 0
               THEN Append(ev1, ToolCallsEvent(calls))
               ELSE ev1
    IN  [map |-> map1, events |-> ev2]

\* A variant in which a line that fails to parse costs the records so far.
ProcessLineResetting(st, line) ==
  LET trimmed == Trim(line) IN
  IF trimmed = <<>> \/ trimmed = DoneLine THEN st
  ELSE IF ~StartsWith(trimmed, DataPrefix) THEN st
  ELSE
    LET parsed == ParseJSON(SubSeq(trimmed, Len(DataPrefix) + 1, Len(trimmed)))
    IN  IF parsed.ok THEN ProcessPayload(st, parsed.value) ELSE [st EXCEPT !.map = <<>>]

\* One iteration of  for (const line of lines).
ProcessLine(st, line) ==
  LET trimmed == Trim(line) IN
  IF trimmed = <<>> \/ trimmed = DoneLine THEN st
  ELSE IF ~StartsWith(trimmed, DataPrefix) THEN st
  ELSE
    LET parsed == ParseJSON(SubSeq(trimmed, Len(DataPrefix) + 1, Len(trimmed)))
    IN  IF parsed.ok THEN ProcessPayload(st, parsed.value) ELSE st

RECURSIVE ProcessLines(_, _)
ProcessLines(st, lines) ==
  IF lines = <<>> THEN st
  ELSE ProcessLines(ProcessLine(st, Head(lines)), Tail(lines))

\* buffer = lines.pop() || ''
\* A variant that forgets the unterminated rest of a fragment.
CarryOverNothing(lines) == <<>>

CarryOver(lines) == lines[Len(lines)]

\* The body of the while loop for one fragment returned by reader.read().
ProcessChunk(st, buf, value) ==
  LET lines == Split(buf \o value)
      st1 == ProcessLines(st, SubSeq(lines, 1, Len(lines) - 1))
  IN  [map |-> st1.map, events |-> st1.events, buffer |-> CarryOver(lines)]

\* some(tc => tc.function.name)
SomeNamed(records) == \E k \in 1..Len(records) : records[k].name # ""

\* A variant that yields whatever records there are.
FinalCheckAnyRecord(st) ==
  LET calls == MapValues(st.map) IN
  IF Len(calls) > 0
  THEN [st EXCEPT !.events = Append(@, ToolCallsEvent(calls))]
  ELSE st

\* The final check after the loop.
FinalCheck(st) ==
  LET calls == MapValues(st.map) IN
  IF Len(calls) > 0 /\ SomeNamed(calls)
  THEN [st EXCEPT !.events = Append(@, ToolCallsEvent(calls))]
  ELSE st

----------------------------------------------------------------------------
(* Paths, as node's path module computes them (POSIX).  A path string is    *)
(* [abs, segs]: whether it starts with "/" and its "/"-separated segments.  *)

Path(abs, segs) == [abs |-> abs, segs |-> segs]

\* Names whose text starts with the two characters "..".
DotDotNames == {"..", "..x"}

RECURSIVE NormalizeInto(_, _, _)
\* Resolves "." and ".." segments; above the root of an absolute path ".."
\* is dropped, in front of a relative path it is kept.
NormalizeInto(done, segs, abs) ==
  IF segs = <<>> THEN done
  ELSE LET h == Head(segs) IN
       IF h = "." \/ h = "" THEN NormalizeInto(done, Tail(segs), abs)
       ELSE IF h = ".." THEN
         IF done # <<>> /\ Last(done) # ".."
         THEN NormalizeInto(SubSeq(done, 1, Len(done) - 1), Tail(segs), abs)
         ELSE IF abs THEN NormalizeInto(done, Tail(segs), abs)
         ELSE NormalizeInto(Append(done, ".."), Tail(segs), abs)
       ELSE NormalizeInto(Append(done, h), Tail(segs), abs)

\* path.resolve(root, p), root absolute: the segments of the absolute result.
resolve(root, p) ==
  IF p.abs THEN NormalizeInto(<<>>, p.segs, TRUE)
  ELSE NormalizeInto(<<>>, root \o p.segs, TRUE)

\* path.join(root, p), root absolute: p is appended even when it is absolute.
join(root, p) == NormalizeInto(<<>>, root \o p.segs, TRUE)

\* path.dirname of an absolute path.
dirname(full) == IF full = <<>> THEN <<>> ELSE SubSeq(full, 1, Len(full) - 1)

RECURSIVE CommonLen(_, _)
CommonLen(a, b) ==
  IF a = <<>> \/ b = <<>> \/ Head(a) # Head(b) THEN 0
  ELSE 1 + CommonLen(Tail(a), Tail(b))

\* path.relative(from, to), both absolute: never an absolute path.
relative(from, to) ==
  LET c == CommonLen(from, to)
  IN  Path(FALSE, [k \in 1..(Len(from) - c) |-> ".."] \o SubSeq(to, c + 1, Len(to)))

\* String.prototype.startsWith('..') and startsWith('/') on a path string.
StartsWithDotDot(p) == ~p.abs /\ p.segs # <<>> /\ Head(p.segs) \in DotDotNames
StartsWithSlash(p) == p.abs

\* A variant that looks at the requested string only.
isPathSafeByPrefix(root, requestedPath) ==
  ~StartsWithDotDot(requestedPath) /\ ~StartsWithSlash(requestedPath)

isPathSafe(root, requestedPath) ==
  LET absolutePath == resolve(root, requestedPath)
      relativePath == relative(root, absolutePath)
  IN  ~StartsWithDotDot(relativePath) /\ ~StartsWithSlash(relativePath)

RECURSIVE JoinRange(_, _, _, _)
JoinRange(parts, sep, lo, hi) ==
  IF lo > hi THEN <<>>
  ELSE IF lo = hi THEN parts[lo]
  ELSE LET mid == (lo + hi) \div 2
       IN  JoinRange(parts, sep, lo, mid) \o <<sep>> \o JoinRange(parts, sep, mid + 1, hi)

\* Array.prototype.join(sep) of an array of texts.
JoinWith(parts, sep) == JoinRange(parts, sep, 1, Len(parts))

\* A path as text: its segments, after a "/" token when it is absolute.
PathText(p) == (IF p.abs THEN <<"/">> ELSE <<>>) \o p.segs
ParsePath(str) ==
  IF str # <<>> /\ Head(str) = "/" THEN Path(TRUE, Tail(str)) ELSE Path(FALSE, str)

----------------------------------------------------------------------------
(* The file system the tools act on.  fs maps every absolute path of        *)
(* FsPaths to a node [kind, content]; io = [fs, touched] threads the state  *)
(* and the log of the paths each operation was applied to.                  *)

projectRoot == <<"proj">>

FsPaths ==
  {<<>>, <<"proj">>, <<"secret">>,
   <<"proj", "a">>, <<"proj", "big">>, <<"proj", "d">>, <<"proj", "d", "b">>,
   <<"proj", "n">>, <<"proj", "e">>, <<"proj", "e", "n">>,
   <<"proj", "node_modules">>, <<"proj", "node_modules", "m">>,
   <<"proj", "out">>}

\* A fixed enumeration order of directory entries.
FsOrder ==
  << <<>>, <<"proj">>, <<"proj", "a">>, <<"proj", "big">>, <<"proj", "d">>, <<"proj", "d", "b">>,
     <<"proj", "e">>, <<"proj", "e", "n">>, <<"proj", "n">>,
     <<"proj", "node_modules">>, <<"proj", "node_modules", "m">>,
     <<"proj", "out">>, <<"secret">> >>

Absent == [kind |-> "absent", content |-> <<>>]
Dir == [kind |-> "dir", content |-> <<>>]
File(content) == [kind |-> "file", content |-> content]
\* A symbolic link; its content is the absolute path it points to.
Link(target) == [kind |-> "link", content |-> target]

\* n lines "x", separated by newlines.
LongText(n) == [k \in 1..(2 * n - 1) |-> IF k % 2 = 1 THEN "x" ELSE "\n"]

InitialFs ==
  [p \in FsPaths |->
     CASE p \in {<<>>, <<"proj">>, <<"proj", "d">>, <<"proj", "node_modules">>} -> Dir
       [] p = <<"proj", "a">> -> File(<<"x", "\n", " ", "X", " ", "\n", "y">>)
       [] p = <<"proj", "d", "b">> -> File(<<"y">>)
       [] p = <<"proj", "node_modules", "m">> -> File(<<"x">>)
       [] p = <<"secret">> -> File(<<"x">>)
       [] p = <<"proj", "out">> -> Link(<<>>)
       [] OTHER -> Absent]

\* The project with a file of n lines in it.
WithLongFile(n) == [InitialFs EXCEPT ![<<"proj", "big">>] = File(LongText(n))]

Node(disk, p) == IF p \in FsPaths THEN disk[p] ELSE Absent

RECURSIVE RealInto(_, _, _)
RealInto(disk, done, segs) ==
  IF segs = <<>> THEN done
  ELSE LET next == Append(done, Head(segs)) IN
       IF Node(disk, next).kind = "link"
       THEN RealInto(disk, disk[next].content, Tail(segs))
       ELSE RealInto(disk, next, Tail(segs))

\* The file an absolute path names once the operating system has followed
\* the symbolic links on the way, as every fs call below does.
RealPath(disk, p) == RealInto(disk, <<>>, p)

InsideRoot(p) == StartsWith(p, projectRoot)

Touch(io, op, p) == [io EXCEPT !.touched = @ \cup {[op |-> op, path |-> p]}]

\* fs.existsSync: never throws.
existsSync(io, p) ==
  LET real == RealPath(io.fs, p)
  IN  [io |-> Touch(io, "stat", real), value |-> Node(io.fs, real).kind # "absent"]

\* fs/promises.readFile(p, 'utf-8'): [io, thrown, value].
readFile(io, p, env) ==
  LET real == RealPath(io.fs, p)
      ok == Node(io.fs, real).kind = "file" /\ real \notin env.unreadable
  IN  [io |-> Touch(io, "read", real), thrown |-> ~ok,
       value |-> IF ok THEN io.fs[real].content ELSE <<>>]

RECURSIVE Ancestors(_)
Ancestors(p) == IF p = <<>> THEN {<<>>} ELSE {p} \cup Ancestors(dirname(p))

\* fs/promises.mkdir(dir, { recursive: true }): [io, thrown].
mkdir(io, dir, env) ==
  LET real == RealPath(io.fs, dir)
      ok == /\ ~env.mkdirFault
            /\ \A a \in Ancestors(real) : a \in FsPaths /\ io.fs[a].kind # "file"
  IN  IF ok
      THEN [io |-> [Touch(io, "mkdir", real) EXCEPT
                      !.fs = [p \in FsPaths |->
                                IF p \in Ancestors(real) THEN Dir ELSE io.fs[p]]],
            thrown |-> FALSE]
      ELSE [io |-> Touch(io, "mkdir", real), thrown |-> TRUE]

\* fs/promises.writeFile(p, content, 'utf-8'): [io, thrown]; content is an
\* argument value, and a value that is no string is a TypeError.
writeFile(io, p, content, env) ==
  LET real == RealPath(io.fs, p)
      ok == /\ content.t = "str"
            /\ ~env.writeFault
            /\ real \in FsPaths
            /\ real # <<>>
            /\ io.fs[real].kind # "dir"
            /\ Node(io.fs, dirname(real)).kind = "dir"
  IN  IF ok
      THEN [io |-> [Touch(io, "write", real) EXCEPT !.fs[real] = File(content.v)],
            thrown |-> FALSE]
      ELSE [io |-> IF content.t = "str" THEN Touch(io, "write", real) ELSE io,
            thrown |-> TRUE]

\* The walk of glob below does not descend through symbolic links.
Children(disk, dir) ==
  {p \in FsPaths : p # <<>> /\ dirname(p) = dir /\ disk[p].kind # "absent"}

RECURSIVE FilesBeneath(_, _)
FilesBeneath(disk, dir) ==
  UNION {IF disk[c].kind = "file" THEN {c} ELSE FilesBeneath(disk, c) : c \in Children(disk, dir)}

RECURSIVE GlobWalk(_, _, _)
\* The files (never directories: nodir) the pattern segments pat match,
\* starting in directory dir.
GlobWalk(disk, dir, pat) ==
  IF pat = <<>> \/ Node(disk, dir).kind # "dir" THEN {}
  ELSE LET h == Head(pat)
           rest == Tail(pat)
           kids == Children(disk, dir)
       IN  CASE h = ".." -> GlobWalk(disk, dirname(dir), rest)
             [] h = "**" ->
                  IF rest = <<>> THEN FilesBeneath(disk, dir)
                  ELSE GlobWalk(disk, dir, rest)
                       \cup UNION {GlobWalk(disk, c, pat) : c \in kids}
             [] h = "*" ->
                  IF rest = <<>> THEN {c \in kids : disk[c].kind = "file"}
                  ELSE UNION {GlobWalk(disk, c, rest) : c \in kids}
             [] OTHER ->
                  LET c == Append(dir, h) IN
                  IF rest = <<>>
                  THEN (IF Node(disk, c).kind = "file" THEN {c} ELSE {})
                  ELSE GlobWalk(disk, c, rest)

\* ignore: ['**/node_modules/**', '**/.git/**']
Ignored(segs) ==
  \E k \in 1..(Len(segs) - 1) : segs[k] \in {"node_modules", ".git"}

RECURSIVE SelectSeq2(_, _)
\* The entries of FsOrder that are in the set, in order.
SelectSeq2(order, set) ==
  IF order = <<>> THEN <<>>
  ELSE (IF Head(order) \in set THEN <<Head(order)>> ELSE <<>>)
       \o SelectSeq2(Tail(order), set)

\* glob(pattern, { cwd, nodir: true, ignore }): [io, thrown, value]; value is
\* the list of matched files as path texts, relative to cwd for a relative
\* pattern and absolute for an absolute one.  pattern is an argument value.
glob(io, pattern, cwd, env) ==
  IF pattern.t # "str" \/ env.globFault
  THEN [io |-> io, thrown |-> TRUE, value |-> <<>>]
  ELSE
    LET pat == ParsePath(pattern.v)
        hits == GlobWalk(io.fs, IF pat.abs THEN <<>> ELSE cwd, pat.segs)
        asText(f) == IF pat.abs THEN Path(TRUE, f) ELSE relative(cwd, f)
        kept == {f \in hits : ~Ignored(asText(f).segs)}
        found == SelectSeq2(FsOrder, kept)
    IN  [io |-> [io EXCEPT !.touched = @ \cup {[op |-> "list", path |-> f] : f \in kept}],
         thrown |-> FALSE,
         value |-> [k \in 1..Len(found) |-> PathText(asText(found[k]))]]

----------------------------------------------------------------------------
(* executeTool.  An argument value is [t, v]: a string v (t = "str"),       *)
(* undefined (t = "undef") or a value that is no string (t = "num").  args  *)
(* is what JSON.parse gave: an object (kind = "object") or null.            *)

Str(v) == [t |-> "str", v |-> v]
Undefined == [t |-> "undef", v |-> <<>>]
NotAString == [t |-> "num", v |-> <<"5">>]

NoArgs ==
  [kind |-> "object", path |-> Undefined, content |-> Undefined,
   pattern |-> Undefined, glob_pattern |-> Undefined, command |-> Undefined]
NullArgs == [NoArgs EXCEPT !.kind = "null"]

ToolResult(success, result) == [success |-> success, result |-> result]
NoResult == ToolResult(FALSE, <<>>)

\* What a tool body came to: a returned ToolResult, or an exception thrown
\* inside the try block.  skipped: files search_files could not read.
Returned(io, success, result) ==
  [io |-> io, thrown |-> FALSE, result |-> ToolResult(success, result), skipped |-> {}]
Thrown(io) ==
  [io |-> io, thrown |-> TRUE, result |-> NoResult, skipped |-> {}]

NoFaults == [unreadable |-> {}, writeFault |-> FALSE, mkdirFault |-> FALSE, globFault |-> FALSE]

\* A variant that looks for the file before it checks the path.
ReadFileToolCheckingLate(args, root, io, env) ==
  IF args.kind = "null" \/ args.path.t # "str" THEN Thrown(io)
  ELSE
    LET fullPath == join(root, ParsePath(args.path.v))
        ex == existsSync(io, fullPath)
        rd == readFile(ex.io, fullPath, env)
    IN  IF ~ex.value
        THEN Returned(ex.io, FALSE, <<"Error: File not found: ">> \o args.path.v)
        ELSE IF ~isPathSafe(root, ParsePath(args.path.v))
        THEN Returned(ex.io, FALSE, <<"Error: Path traversal not allowed">>)
        ELSE IF rd.thrown THEN Thrown(rd.io)
        ELSE Returned(rd.io, TRUE, rd.value)

\* case 'read_file'
ReadFileTool(args, root, io, env) ==
  IF args.kind = "null" \/ args.path.t # "str" THEN Thrown(io)
  ELSE IF ~isPathSafe(root, ParsePath(args.path.v))
  THEN Returned(io, FALSE, <<"Error: Path traversal not allowed">>)
  ELSE
    LET fullPath == join(root, ParsePath(args.path.v))
        ex == existsSync(io, fullPath)
        rd == readFile(ex.io, fullPath, env)
    IN  IF ~ex.value
        THEN Returned(ex.io, FALSE, <<"Error: File not found: ">> \o args.path.v)
        ELSE IF rd.thrown THEN Thrown(rd.io)
        ELSE Returned(rd.io, TRUE, rd.value)

\* case 'write_file'
WriteFileTool(args, root, io, env) ==
  IF args.kind = "null" \/ args.path.t # "str" THEN Thrown(io)
  ELSE IF ~isPathSafe(root, ParsePath(args.path.v))
  THEN Returned(io, FALSE, <<"Error: Path traversal not allowed">>)
  ELSE
    LET fullPath == join(root, ParsePath(args.path.v))
        dir == dirname(fullPath)
        exDir == existsSync(io, dir)
        md == IF exDir.value THEN [io |-> exDir.io, thrown |-> FALSE]
              ELSE mkdir(exDir.io, dir, env)
        existed == existsSync(md.io, fullPath)
        wr == writeFile(existed.io, fullPath, args.content, env)
    IN  IF md.thrown THEN Thrown(md.io)
        ELSE IF wr.thrown THEN Thrown(wr.io)
        ELSE Returned(wr.io, TRUE,
                      (IF existed.value THEN <<"File updated: ">> ELSE <<"File created: ">>)
                        \o args.path.v)

\* case 'list_files'
ListFilesTool(args, root, io, env) ==
  IF args.kind = "null" THEN Thrown(io)
  ELSE
    LET files == glob(io, args.pattern, root, env) IN
    IF files.thrown THEN Thrown(files.io)
    ELSE IF Len(files.value) = 0
    THEN Returned(files.io, TRUE, <<"No files found matching pattern">>)
    ELSE Returned(files.io, TRUE, JoinWith(files.value, "\n"))

Lower(c) ==
  CASE c = "X" -> "x" [] c = "Y" -> "y" [] c = "CLEAR" -> "clear" [] OTHER -> c

\* new RegExp(pattern, 'gi') throws a SyntaxError on an unbalanced "(".
RegExpThrows(pattern) ==
  pattern.t = "str" /\ \E k \in 1..Len(pattern.v) : pattern.v[k] = "("

\* The source of the RegExp: the empty pattern for undefined.
RegExpSource(pattern) == IF pattern.t = "undef" THEN <<>> ELSE pattern.v

\* regex.test(line) with lastIndex = 0: the source occurs in the line,
\* letter case ignored.
RegExpTest(source, line) ==
  \E k \in 0..(Len(line) - Len(source)) :
    \A j \in 1..Len(source) : Lower(line[k + j]) = Lower(source[j])

SearchCap == 100

RECURSIVE MatchLines(_, _, _, _, _)
\* The inner for loop over the lines lo..hi of one file.
MatchLines(source, file, lines, lo, hi) ==
  IF lo > hi THEN <<>>
  ELSE IF lo = hi
  THEN (IF RegExpTest(source, lines[lo])
        THEN << file \o <<":", ToString(lo), ": ">> \o TrimText(lines[lo]) >>
        ELSE <<>>)
  ELSE LET mid == (lo + hi) \div 2
       IN  MatchLines(source, file, lines, lo, mid)
             \o MatchLines(source, file, lines, mid + 1, hi)

RECURSIVE SearchFiles(_, _, _, _, _, _)
\* The outer for loop: acc = [io, results, skipped].
SearchFiles(acc, source, files, root, env, k) ==
  IF k > Len(files) THEN acc
  ELSE
    LET fullPath == join(root, ParsePath(files[k]))
        rd == readFile(acc.io, fullPath, env)
    IN  SearchFiles(
          IF rd.thrown
          THEN [acc EXCEPT !.io = rd.io, !.skipped = @ \cup {fullPath}]
          ELSE [acc EXCEPT !.io = rd.io,
                           !.results = @ \o MatchLines(source, files[k], SplitText(rd.value),
                                                         1, Len(SplitText(rd.value)))],
          source, files, root, env, k + 1)

\* A variant that returns every match.
SearchFilesToolUncapped(args, root, io, env) ==
  IF args.kind = "null" THEN Thrown(io)
  ELSE
    LET globPattern == IF args.glob_pattern.t = "undef" \/ args.glob_pattern.v = <<>>
                       THEN Str(<<"**", "*">>) ELSE args.glob_pattern
        files == glob(io, globPattern, root, env)
        found == SearchFiles([io |-> files.io, results |-> <<>>, skipped |-> {}],
                             RegExpSource(args.pattern), files.value, root, env, 1)
        shown == found.results
    IN  IF files.thrown THEN Thrown(files.io)
        ELSE IF RegExpThrows(args.pattern) THEN Thrown(files.io)
        ELSE [Returned(found.io, TRUE,
                       IF Len(found.results) = 0 THEN <<"No matches found">>
                       ELSE JoinWith(shown, "\n"))
                EXCEPT !.skipped = found.skipped]

\* case 'search_files'
SearchFilesTool(args, root, io, env) ==
  IF args.kind = "null" THEN Thrown(io)
  ELSE
    LET globPattern == IF args.glob_pattern.t = "undef" \/ args.glob_pattern.v = <<>>
                       THEN Str(<<"**", "*">>) ELSE args.glob_pattern
        files == glob(io, globPattern, root, env)
        found == SearchFiles([io |-> files.io, results |-> <<>>, skipped |-> {}],
                             RegExpSource(args.pattern), files.value, root, env, 1)
        shown == SubSeq(found.results, 1,
                        IF Len(found.results) < SearchCap THEN Len(found.results) ELSE SearchCap)
    IN  IF files.thrown THEN Thrown(files.io)
        ELSE IF RegExpThrows(args.pattern) THEN Thrown(files.io)
        ELSE [Returned(found.io, TRUE,
                       IF Len(found.results) = 0 THEN <<"No matches found">>
                       ELSE JoinWith(shown, "\n"))
                EXCEPT !.skipped = found.skipped]

ToolNames == {"read_file", "write_file", "list_files", "search_files", "run_command"}

\* The switch, for the tools that finish without a prompt.
ToolBody(name, args, root, io, env) ==
  CASE name = "read_file" -> ReadFileTool(args, root, io, env)
    [] name = "write_file" -> WriteFileTool(args, root, io, env)
    [] name = "list_files" -> ListFilesTool(args, root, io, env)
    [] name = "search_files" -> SearchFilesTool(args, root, io, env)
    [] OTHER -> Returned(io, FALSE, <<"Unknown tool: ", name>>)

\* A variant without the outer try/catch.
CatchToolErrorRethrowing(thrown, result) ==
  IF thrown
  THEN [pc |-> "thrown", result |-> NoResult]
  ELSE [pc |-> "returned", result |-> result]

\* The outer catch: where the call stands and what it returns.
CatchToolError(thrown, result) ==
  IF thrown
  THEN [pc |-> "returned", result |-> ToolResult(FALSE, <<"Tool execution error: ">>)]
  ELSE [pc |-> "returned", result |-> result]

\* A variant that takes everything but a refusal for consent.
ConfirmedUnlessNo(answer) == answer \notin {"n", "N", "no", "NO", "No"}

\* confirmCommand's resolve(...)
Confirmed(answer) == answer \in {"y", "Y", "yes", "YES", "Yes"}

\* How the subprocess can end: [ok, stdout, stderr, message].
ExecOutcomes ==
  {[ok |-> TRUE, stdout |-> <<"out">>, stderr |-> <<>>, message |-> <<>>],
   [ok |-> TRUE, stdout |-> <<>>, stderr |-> <<>>, message |-> <<>>],
   [ok |-> TRUE, stdout |-> <<"out">>, stderr |-> <<"warn">>, message |-> <<>>],
   [ok |-> FALSE, stdout |-> <<>>, stderr |-> <<"err">>, message |-> <<"exit code 1">>],
   [ok |-> FALSE, stdout |-> <<>>, stderr |-> <<>>, message |-> <<"timeout">>],
   [ok |-> FALSE, stdout |-> <<"out">>, stderr |-> <<>>, message |-> <<"maxBuffer exceeded">>]}

\* A variant that takes captured output for success.
CommandResultLenient(outcome) ==
  IF outcome.ok \/ outcome.stdout # <<>>
  THEN LET output == outcome.stdout
                       \o (IF outcome.stderr # <<>>
                           THEN <<"\nStderr:\n">> \o outcome.stderr ELSE <<>>)
       IN  ToolResult(TRUE, IF output # <<>> THEN output
                            ELSE <<"Command completed (no output)">>)
  ELSE ToolResult(FALSE, <<"Command failed: ">> \o outcome.message \o <<"\n">> \o outcome.stderr)

\* The inner try/catch around execAsync.
CommandResult(outcome) ==
  IF outcome.ok
  THEN LET output == outcome.stdout
                       \o (IF outcome.stderr # <<>>
                           THEN <<"\nStderr:\n">> \o outcome.stderr ELSE <<>>)
       IN  ToolResult(TRUE, IF output # <<>> THEN output
                            ELSE <<"Command completed (no output)">>)
  ELSE ToolResult(FALSE, <<"Command failed: ">> \o outcome.message \o <<"\n">> \o outcome.stderr)

\* answer: what the user typed at confirmCommand's prompt, once asked.
Unasked == "?"
NoLog ==
  [touched |-> {}, executed |-> <<>>, threw |-> FALSE, skipped |-> {}, answer |-> Unasked]

\* executeTool(name, args, projectRoot), up to its first wait on the user.
ExecuteToolCall(name, args, env) ==
  /\ toolPc = "idle"
  /\ toolCall' = [name |-> name, args |-> args]
  /\ IF name = "run_command" /\ args.kind # "null"
     THEN /\ toolPc' = "confirm"
          /\ toolResult' = NoResult
          /\ toolLog' = NoLog
          /\ fs' = fs
     ELSE LET out == IF name = "run_command"
                     THEN Thrown([fs |-> fs, touched |-> {}])
                     ELSE ToolBody(name, args, projectRoot, [fs |-> fs, touched |-> {}], env)
              end == CatchToolError(out.thrown, out.result)
          IN  /\ toolPc' = end.pc
              /\ toolResult' = end.result
              /\ toolLog' = [NoLog EXCEPT !.touched = out.io.touched,
                                          !.threw = out.thrown,
                                          !.skipped = out.skipped]
              /\ fs' = out.io.fs

\* The user answers confirmCommand's question.
ExecuteToolConfirm(answer) ==
  /\ toolPc = "confirm"
  /\ IF ~Confirmed(answer)
     THEN /\ toolPc' = "returned"
          /\ toolResult' = ToolResult(FALSE, <<"Command cancelled by user">>)
          /\ toolLog' = [toolLog EXCEPT !.answer = answer]
     ELSE IF toolCall.args.command.t # "str"
     THEN \* exec throws on a command that is no string: the inner catch
          /\ toolPc' = "returned"
          /\ toolResult' = ToolResult(FALSE, <<"Command failed: ", "TypeError", "\n">>)
          /\ toolLog' = [toolLog EXCEPT !.answer = answer, !.threw = TRUE]
     ELSE /\ toolPc' = "exec"
          /\ toolResult' = toolResult
          /\ toolLog' = [toolLog EXCEPT !.answer = answer,
                                        !.executed = Append(@, toolCall.args.command.v)]
  /\ UNCHANGED <<fs, toolCall>>

\* The subprocess ends, within or beyond its limits.
ExecuteToolExecDone(outcome) ==
  /\ toolPc = "exec"
  /\ toolPc' = "returned"
  /\ toolResult' = CommandResult(outcome)
  /\ toolLog' = [toolLog EXCEPT !.threw = ~outcome.ok]
  /\ UNCHANGED <<fs, toolCall>>

----------------------------------------------------------------------------
(* chatStream: the generator, step by step *)

\* A variant that sends the request whatever the model is.
ChatStreamCallUnchecked ==
  /\ csPc \in {"idle", "done", "failed"}
  /\ csPc' = "fetch"
  /\ csError' = ""
  /\ buffer' = <<>>
  /\ toolCallsMap' = <<>>
  /\ events' = <<>>
  /\ wire' = <<>>
  /\ UNCHANGED <<model, text, pos>>

\* The call: the model check, then the request is sent.
ChatStreamCall ==
  /\ csPc \in {"idle", "done", "failed"}
  /\ csPc' = IF model = NoModel THEN "failed" ELSE "fetch"
  /\ csError' = IF model = NoModel THEN "No model selected. Call setModel() first." ELSE ""
  /\ buffer' = <<>>
  /\ toolCallsMap' = <<>>
  /\ events' = <<>>
  /\ wire' = <<>>
  /\ UNCHANGED <<model, text, pos>>

\* await fetch(...): rejected, non-success status, missing body, or a body.
FetchOutcomes == {"network_error", "not_ok", "no_body", "ok"}

\* The message of the Error each outcome ends in.
FetchError(outcome) ==
  CASE outcome = "network_error" -> "fetch failed"
    [] outcome = "not_ok" -> "Chat request failed: "
    [] outcome = "no_body" -> "No response body"
    [] OTHER -> ""

ChatStreamFetch(outcome) ==
  /\ csPc = "fetch"
  /\ csPc' = IF outcome = "ok" THEN "reading" ELSE "failed"
  /\ csError' = FetchError(outcome)
  /\ UNCHANGED <<model, buffer, toolCallsMap, events, wire>>

\* reader.read() returned { done: false, value }.
ChatStreamRead(value) ==
  /\ csPc = "reading"
  /\ LET r == ProcessChunk([map |-> toolCallsMap, events |-> events], buffer, value)
     IN  /\ buffer' = r.buffer
         /\ toolCallsMap' = r.map
         /\ events' = r.events
  /\ UNCHANGED <<model, csPc, csError>>

\* reader.read() rejected.
ChatStreamReadError ==
  /\ csPc = "reading"
  /\ csPc' = "failed"
  /\ csError' = "read failed"
  /\ UNCHANGED <<model, buffer, toolCallsMap, events, text, pos, wire>>

\* A variant that decodes what is left in the buffer as a last line.
ChatStreamEndFlushing ==
  /\ csPc = "reading"
  /\ LET st == ProcessLine([map |-> toolCallsMap, events |-> events], buffer)
         r == FinalCheck(st)
     IN  events' = r.events
  /\ csPc' = "done"
  /\ UNCHANGED <<model, csError, buffer, toolCallsMap, text, pos, wire>>

\* reader.read() returned { done: true }: the final check, then return.
ChatStreamEnd ==
  /\ csPc = "reading"
  /\ LET r == FinalCheck([map |-> toolCallsMap, events |-> events])
     IN  events' = r.events
  /\ csPc' = "done"
  /\ UNCHANGED <<model, csError, buffer, toolCallsMap, text, pos, wire>>

----------------------------------------------------------------------------
(* Repl *)

Null == [t |-> "null", v |-> <<>>]

Message(role, content, tool_calls, tool_call_id) ==
  [role |-> role, content |-> content, tool_calls |-> tool_calls,
   tool_call_id |-> tool_call_id]

\* getSystemPrompt()
SystemMessage == Message("system", Str(<<"You are Aingel">>), <<>>, "")
UserMessage(trimmed) == Message("user", Str(trimmed), <<>>, "")

\* The ToolCall objects of the accumulator, as the messages carry them.
ToolCallOf(record) ==
  [id |-> record.id, name |-> record.name, arguments |-> record.arguments]

\* The loop body of  for await (const chunk of ...)  for the events ev.
RECURSIVE ConsumeCollecting(_, _)
\* A variant that collects the records of every tool_calls event.
ConsumeCollecting(acc, ev) ==
  IF ev = <<>> THEN acc
  ELSE ConsumeCollecting(
         IF Head(ev).type = "content"
         THEN [acc EXCEPT !.fullContent = @ \o Head(ev).content]
         ELSE [acc EXCEPT !.toolCalls = @ \o Head(ev).tool_calls],
         Tail(ev))

RECURSIVE Consume(_, _)
Consume(acc, ev) ==
  IF ev = <<>> THEN acc
  ELSE Consume(
         IF Head(ev).type = "content"
         THEN [acc EXCEPT !.fullContent = @ \o Head(ev).content]
         ELSE [acc EXCEPT !.toolCalls = Head(ev).tool_calls],
         Tail(ev))

\* chunk.tool_calls holds the accumulator's own record objects: read after
\* the stream has ended, they show what the accumulator holds then.
Deref(calls, map) ==
  [k \in 1..Len(calls) |-> map[MapGet(map, calls[k].index)]]

\* JSON.parse(toolCall.function.arguments), by the key/value tokens.
KeyValues ==
  [field : {"path"}, token : {"p:a", "p:n", "p:../secret"}]
  \cup [field : {"content"}, token : {"c:x"}]
  \cup [field : {"pattern"}, token : {"g:*", "g:../*"}]
  \cup [field : {"command"}, token : {"cmd:ls"}]

ValueOf(token) ==
  CASE token = "p:a" -> Str(<<"a">>)
    [] token = "p:n" -> Str(<<"n">>)
    [] token = "p:../secret" -> Str(<<"..", "secret">>)
    [] token = "c:x" -> Str(<<"x">>)
    [] token = "g:*" -> Str(<<"*">>)
    [] token = "g:../*" -> Str(<<"..", "*">>)
    [] token = "cmd:ls" -> Str(<<"ls">>)
    [] OTHER -> Undefined

IsObjectText(arguments) ==
  /\ Len(arguments) >= 2
  /\ arguments[1] = "{"
  /\ Last(arguments) = "}"
  /\ \A k \in 2..(Len(arguments) - 1) : \E kv \in KeyValues : kv.token = arguments[k]

FieldValue(arguments, field) ==
  LET ks == {k \in 2..(Len(arguments) - 1) :
               \E kv \in KeyValues : kv.token = arguments[k] /\ kv.field = field}
  IN  IF ks = {} THEN Undefined
      ELSE ValueOf(arguments[CHOOSE k \in ks : \A j \in ks : j <= k])

\* A variant that passes null on for arguments that do not parse.
ParseArgsOrNull(arguments) ==
  IF arguments = <<"null">> THEN NullArgs
  ELSE IF IsObjectText(arguments)
  THEN [kind |-> "object",
        path |-> FieldValue(arguments, "path"),
        content |-> FieldValue(arguments, "content"),
        pattern |-> FieldValue(arguments, "pattern"),
        glob_pattern |-> FieldValue(arguments, "glob_pattern"),
        command |-> FieldValue(arguments, "command")]
  ELSE NullArgs

\* try { args = JSON.parse(...) } catch { args = {} }
ParseArgs(arguments) ==
  IF arguments = <<"null">> THEN NullArgs
  ELSE IF IsObjectText(arguments)
  THEN [kind |-> "object",
        path |-> FieldValue(arguments, "path"),
        content |-> FieldValue(arguments, "content"),
        pattern |-> FieldValue(arguments, "pattern"),
        glob_pattern |-> FieldValue(arguments, "glob_pattern"),
        command |-> FieldValue(arguments, "command")]
  ELSE NoArgs

\* start()
Start ==
  /\ replPc = "new"
  /\ history' = <<SystemMessage>>
  /\ replPc' = "prompt"
  /\ UNCHANGED <<fullContent, toolCalls, callIdx, turnStart, round, turns>>
  /\ UNCHANGED <<streamVars, toolVars>>

\* A variant that goes on with the text of the turn before.
GetResponseBeginKeeping ==
  /\ fullContent' = fullContent
  /\ toolCalls' = <<>>
  /\ turnStart' = history'
  /\ turns' = turns + 1
  /\ ChatStreamCall

\* The first lines of getResponse, up to the request being sent.
GetResponseBegin ==
  /\ fullContent' = <<>>
  /\ toolCalls' = <<>>
  /\ turnStart' = history'
  /\ turns' = turns + 1
  /\ ChatStreamCall

\* prompt(): an empty line.
PromptEmpty(input) ==
  /\ replPc = "prompt"
  /\ TrimText(input) = <<>>
  /\ UNCHANGED vars

\* command.slice(1).split(' ')[0].toLowerCase()
CommandName(input) ==
  LET parts == SplitRange(TrimText(input), " ", 2, Len(TrimText(input)))
  IN  IF parts[1] = <<>> THEN "" ELSE Lower(parts[1][1])

\* A variant whose /clear forgets the system prompt too.
handleCommandClearingAll(input) ==
  /\ replPc = "prompt"
  /\ StartsWith(TrimText(input), <<"/">>)
  /\ LET cmd == CommandName(input)
     IN  /\ replPc' = IF cmd \in {"quit", "exit", "q"} THEN "exited" ELSE "prompt"
         /\ history' = IF cmd = "clear" THEN <<>> ELSE history
  /\ UNCHANGED <<fullContent, toolCalls, callIdx, turnStart, round, turns>>
  /\ UNCHANGED <<streamVars, toolVars>>

\* handleCommand(trimmed)
handleCommand(input) ==
  /\ replPc = "prompt"
  /\ StartsWith(TrimText(input), <<"/">>)
  /\ LET cmd == CommandName(input)
     IN  /\ replPc' = IF cmd \in {"quit", "exit", "q"} THEN "exited" ELSE "prompt"
         /\ history' = IF cmd = "clear" THEN <<SystemMessage>> ELSE history
  /\ UNCHANGED <<fullContent, toolCalls, callIdx, turnStart, round, turns>>
  /\ UNCHANGED <<streamVars, toolVars>>

\* processMessage(trimmed), up to the request of its first model turn.
\* A variant whose prompt stays armed while the tools of a turn run.
processMessageAnytime(input) ==
  /\ replPc \in {"prompt", "tools"}
  /\ toolPc = "idle"
  /\ TrimText(input) # <<>>
  /\ ~StartsWith(TrimText(input), <<"/">>)
  /\ turns < MaxTurns
  /\ history' = Append(history, UserMessage(TrimText(input)))
  /\ replPc' = "streaming"
  /\ round' = 1
  /\ GetResponseBegin
  /\ UNCHANGED callIdx
  /\ UNCHANGED toolVars

processMessage(input) ==
  /\ replPc = "prompt"
  /\ TrimText(input) # <<>>
  /\ ~StartsWith(TrimText(input), <<"/">>)
  /\ turns < MaxTurns
  /\ history' = Append(history, UserMessage(TrimText(input)))
  /\ replPc' = "streaming"
  /\ round' = 1
  /\ GetResponseBegin
  /\ UNCHANGED callIdx
  /\ UNCHANGED toolVars

\* getResponse awaits the response; body is what the server will send.
GetResponseFetch(outcome, body) ==
  /\ replPc = "streaming"
  /\ ChatStreamFetch(outcome)
  /\ text' = body
  /\ pos' = 0
  /\ UNCHANGED <<replVars, toolVars>>

\* The characters of the body up to and including the next newline.
NextLineEnd == CHOOSE k \in (pos + 1)..Len(text) :
                 /\ text[k] = NL \/ k = Len(text)
                 /\ \A j \in (pos + 1)..(k - 1) : text[j] # NL

\* getResponse takes the events of one more fragment: the next line.
GetResponseRead ==
  /\ replPc = "streaming"
  /\ pos < Len(text)
  /\ ChatStreamRead(SubSeq(text, pos + 1, NextLineEnd))
  /\ pos' = NextLineEnd
  /\ LET acc == Consume([fullContent |-> fullContent, toolCalls |-> toolCalls],
                        SubSeq(events', Len(events) + 1, Len(events')))
     IN  /\ fullContent' = acc.fullContent
         /\ toolCalls' = acc.toolCalls
  /\ UNCHANGED <<history, replPc, callIdx, turnStart, round, turns, text, wire>>
  /\ UNCHANGED toolVars

GetResponseReadError ==
  /\ replPc = "streaming"
  /\ ChatStreamReadError
  /\ UNCHANGED <<replVars, toolVars>>

\* A variant that records an assistant message for every finished turn.
HandleResponseAlways(content, calls) ==
  IF Len(calls) > 0
  THEN /\ history' = Append(history,
                            Message("assistant",
                                    IF content # <<>> THEN Str(content) ELSE Null,
                                    [k \in 1..Len(calls) |-> ToolCallOf(calls[k])], ""))
       /\ replPc' = "tools"
       /\ callIdx' = 1
  ELSE /\ history' = Append(history, Message("assistant", Str(content), <<>>, ""))
       /\ replPc' = "prompt"
       /\ callIdx' = callIdx

\* What getResponse does after the for await loop, up to the first tool.
HandleResponse(content, calls) ==
  IF Len(calls) > 0
  THEN /\ history' = Append(history,
                            Message("assistant",
                                    IF content # <<>> THEN Str(content) ELSE Null,
                                    [k \in 1..Len(calls) |-> ToolCallOf(calls[k])], ""))
       /\ replPc' = "tools"
       /\ callIdx' = 1
  ELSE IF content # <<>>
  THEN /\ history' = Append(history, Message("assistant", Str(content), <<>>, ""))
       /\ replPc' = "prompt"
       /\ callIdx' = callIdx
  ELSE /\ history' = history
       /\ replPc' = "prompt"
       /\ callIdx' = callIdx

\* The stream ends: the last events, then the rest of getResponse.
GetResponseEnd ==
  /\ replPc = "streaming"
  /\ pos = Len(text)
  /\ ChatStreamEnd
  /\ LET acc == Consume([fullContent |-> fullContent, toolCalls |-> toolCalls],
                        SubSeq(events', Len(events) + 1, Len(events')))
         calls == Deref(acc.toolCalls, toolCallsMap)
     IN  /\ fullContent' = acc.fullContent
         /\ toolCalls' = calls
         /\ HandleResponse(acc.fullContent, calls)
  /\ UNCHANGED <<turnStart, round, turns>>
  /\ UNCHANGED toolVars

\* A variant whose handler takes the last message back.
processMessageCatchRollingBack ==
  /\ replPc \in {"streaming", "tools"}
  /\ IF replPc = "streaming" THEN csPc = "failed" ELSE toolPc = "thrown"
  /\ replPc' = "prompt"
  /\ toolPc' = "idle"
  /\ history' = SubSeq(history, 1, Len(history) - 1)
  /\ UNCHANGED <<fullContent, toolCalls, callIdx, turnStart, round, turns>>
  /\ UNCHANGED <<streamVars, fs, toolCall, toolResult, toolLog>>

\* A variant whose handler keeps what the failed turn had streamed so far.
processMessageCatchKeeping ==
  /\ replPc \in {"streaming", "tools"}
  /\ IF replPc = "streaming" THEN csPc = "failed" ELSE toolPc = "thrown"
  /\ replPc' = "prompt"
  /\ toolPc' = "idle"
  /\ history' = IF fullContent # <<>>
                THEN Append(history, Message("assistant", Str(fullContent), <<>>, ""))
                ELSE history
  /\ UNCHANGED <<fullContent, toolCalls, callIdx, turnStart, round, turns>>
  /\ UNCHANGED <<streamVars, fs, toolCall, toolResult, toolLog>>

\* The error handler of processMessage.
processMessageCatch ==
  /\ replPc \in {"streaming", "tools"}
  /\ IF replPc = "streaming" THEN csPc = "failed" ELSE toolPc = "thrown"
  /\ replPc' = "prompt"
  /\ toolPc' = "idle"
  /\ UNCHANGED <<history, fullContent, toolCalls, callIdx, turnStart, round, turns>>
  /\ UNCHANGED <<streamVars, fs, toolCall, toolResult, toolLog>>

Envs ==
  {NoFaults,
   [NoFaults EXCEPT !.unreadable = {<<"proj", "a">>}],
   [NoFaults EXCEPT !.unreadable = FsPaths],
   [NoFaults EXCEPT !.writeFault = TRUE],
   [NoFaults EXCEPT !.mkdirFault = TRUE],
   [NoFaults EXCEPT !.globFault = TRUE]}

Answers == {"y", "YES", "n", ""}

\* The for loop reaches toolCalls[callIdx] and calls executeTool.
GetResponseTool(env) ==
  /\ replPc = "tools"
  /\ callIdx <= Len(toolCalls)
  /\ ExecuteToolCall(toolCalls[callIdx].name, ParseArgs(toolCalls[callIdx].arguments), env)
  /\ UNCHANGED <<replVars, streamVars>>

GetResponseToolConfirm(answer) ==
  /\ replPc = "tools"
  /\ ExecuteToolConfirm(answer)
  /\ UNCHANGED <<replVars, streamVars>>

GetResponseToolExecDone(outcome) ==
  /\ replPc = "tools"
  /\ ExecuteToolExecDone(outcome)
  /\ UNCHANGED <<replVars, streamVars>>

\* A variant that links the result by the tool's name.
ToolMessageByName(call, result) == Message("tool", Str(result.result), <<>>, call.name)

\* this.history.push({ role: 'tool', content: result.result, tool_call_id: toolCall.id })
ToolMessage(call, result) == Message("tool", Str(result.result), <<>>, call.id)

\* A variant that collects the results and appends them after the last tool.
GetResponseToolResultDeferring ==
  /\ replPc = "tools"
  /\ toolPc = "returned"
  /\ toolPc' = "idle"
  /\ IF callIdx < Len(toolCalls)
     THEN /\ callIdx' = callIdx + 1
          /\ history' = history
          /\ UNCHANGED <<replPc, fullContent, toolCalls, turnStart, round, turns, streamVars>>
     ELSE /\ turns < MaxTurns
          /\ history' = Append(history, ToolMessage(toolCalls[callIdx], toolResult))
          /\ replPc' = "streaming"
          /\ round' = round + 1
          /\ GetResponseBegin
          /\ UNCHANGED callIdx
  /\ UNCHANGED <<fs, toolCall, toolResult, toolLog>>

\* A variant without the follow-up getResponse.
GetResponseToolResultOnce ==
  /\ replPc = "tools"
  /\ toolPc = "returned"
  /\ toolPc' = "idle"
  /\ history' = Append(history, ToolMessage(toolCalls[callIdx], toolResult))
  /\ IF callIdx < Len(toolCalls)
     THEN /\ callIdx' = callIdx + 1
          /\ UNCHANGED <<replPc, fullContent, toolCalls, turnStart, round, turns, streamVars>>
     ELSE /\ replPc' = "prompt"
          /\ UNCHANGED <<callIdx, fullContent, toolCalls, turnStart, round, turns, streamVars>>
  /\ UNCHANGED <<fs, toolCall, toolResult, toolLog>>

\* A variant that gives the turn up when a tool has failed.
GetResponseToolResultStopping ==
  /\ replPc = "tools"
  /\ toolPc = "returned"
  /\ toolPc' = "idle"
  /\ history' = Append(history, ToolMessage(toolCalls[callIdx], toolResult))
  /\ IF ~toolResult.success
     THEN /\ replPc' = "prompt"
          /\ UNCHANGED <<fullContent, toolCalls, callIdx, turnStart, round, turns, streamVars>>
     ELSE IF callIdx < Len(toolCalls)
     THEN /\ callIdx' = callIdx + 1
          /\ UNCHANGED <<replPc, fullContent, toolCalls, turnStart, round, turns, streamVars>>
     ELSE /\ turns < MaxTurns
          /\ replPc' = "streaming"
          /\ round' = round + 1
          /\ GetResponseBegin
          /\ UNCHANGED callIdx
  /\ UNCHANGED <<fs, toolCall, toolResult, toolLog>>

\* executeTool has returned: the tool message, then the next tool call or,
\* after the last one, the follow-up getResponse.
GetResponseToolResult ==
  /\ replPc = "tools"
  /\ toolPc = "returned"
  /\ toolPc' = "idle"
  /\ history' = Append(history, ToolMessage(toolCalls[callIdx], toolResult))
  /\ IF callIdx < Len(toolCalls)
     THEN /\ callIdx' = callIdx + 1
          /\ UNCHANGED <<replPc, fullContent, toolCalls, turnStart, round, turns, streamVars>>
     ELSE /\ turns < MaxTurns
          /\ replPc' = "streaming"
          /\ round' = round + 1
          /\ GetResponseBegin
          /\ UNCHANGED callIdx
  /\ UNCHANGED <<fs, toolCall, toolResult, toolLog>>

----------------------------------------------------------------------------
(* The stream client on its own: what a server may send *)

Indices == {0, 1}
Ids == {"", "a", "b"}
Names == {"", "f"}
ArgChunks == {<<"x">>, <<"y">>}

\* A fragment that opens or re-labels a record, and one that carries a chunk.
HeaderFragments ==
  {Fragment(i, id, n, <<>>) : i \in Indices, id \in Ids, n \in Names}
ChunkFragments == {Fragment(i, "", "", c) : i \in Indices, c \in ArgChunks}

StreamPayloads ==
  {ToolPayload(<<f>>) : f \in HeaderFragments \cup ChunkFragments}
  \cup {ContentPayload(<<"h">>), FinishPayload("tool_calls"), FinishPayload("stop")}
  \cup {[EmptyPayload EXCEPT !.choices = c] : c \in {"empty", "missing"}}
  \cup {[content |-> <<"i">>, choices |-> "one", finish_reason |-> "tool_calls",
         tool_calls |-> <<Fragment(1, "b", "f", <<"y">>), Fragment(0, "a", "f", <<"x">>)>>]}

InitClient ==
  /\ model \in {NoModel, "m"}
  /\ csPc = "idle"
  /\ csError = ""
  /\ buffer = <<>>
  /\ toolCallsMap = <<>>
  /\ events = <<>>
  /\ pos = 0
  /\ wire = <<>>

InitTools ==
  /\ fs = InitialFs
  /\ toolPc = "idle"
  /\ toolCall = [name |-> "", args |-> NoArgs]
  /\ toolResult = NoResult
  /\ toolLog = NoLog

InitRepl ==
  /\ history = <<>>
  /\ replPc = "new"
  /\ fullContent = <<>>
  /\ toolCalls = <<>>
  /\ callIdx = 1
  /\ turnStart = <<>>
  /\ round = 0
  /\ turns = 0

StreamCall == ChatStreamCall /\ UNCHANGED <<toolVars, replVars>>
StreamFetch ==
  \E outcome \in FetchOutcomes :
    ChatStreamFetch(outcome) /\ UNCHANGED <<text, pos, toolVars, replVars>>
StreamReadError == ChatStreamReadError /\ UNCHANGED <<toolVars, replVars>>
StreamEnd == ChatStreamEnd /\ UNCHANGED <<toolVars, replVars>>

\* The server sends one more payload line and read() returns exactly it.
StreamReadPayload ==
  \E p \in StreamPayloads :
    /\ Len(wire) < MaxPayloads
    /\ ChatStreamRead(DataLine(p))
    /\ wire' = Append(wire, p)
    /\ UNCHANGED <<text, pos, toolVars, replVars>>

\* A data line whose JSON is cut off decodes to nothing.
Unparsed == [EmptyPayload EXCEPT !.choices = "unparsed"]
CutOffPayloads ==
  {ContentPayload(<<"h">>), ToolPayload(<<Fragment(0, "a", "f", <<"x">>)>>)}

\* The server sends a data line that is no JSON document.
StreamReadMalformed ==
  \E p \in CutOffPayloads :
    /\ Len(wire) < MaxPayloads
    /\ ChatStreamRead(DataPrefix \o <<Tok("{"), JTok(p), NL>>)
    /\ wire' = Append(wire, Unparsed)
    /\ UNCHANGED <<text, pos, toolVars, replVars>>

InitStream == InitClient /\ text = <<>> /\ InitTools /\ InitRepl

NextStream ==
  \/ StreamCall
  \/ StreamFetch
  \/ StreamReadPayload
  \/ StreamReadMalformed
  \/ StreamReadError
  \/ StreamEnd

SpecStream == InitStream /\ [][NextStream]_vars

----------------------------------------------------------------------------
(* The stream client on its own: a whole body, cut at arbitrary places *)

\* Lines without their terminating newline.
BodyLines ==
  {DataPrefix \o <<Tok("{"), JTok(ContentPayload(<<"h">>)), Tok("}")>>,
   DataPrefix \o <<Tok("{"), JTok(FinishPayload("tool_calls")), Tok("}")>>,
   <<Tok(" ")>> \o DataPrefix
     \o <<Tok("{"), JTok(ToolPayload(<<Fragment(0, "a", "f", <<"x">>)>>)), Tok("}"), Tok("\r")>>,
   <<>>,                                                       \* blank line
   DoneLine,
   DataPrefix \o <<Tok("{"), JTok(ContentPayload(<<"h">>))>>,  \* cut-off JSON
   <<Tok("{"), JTok(ContentPayload(<<"h">>)), Tok("}")>>}      \* no data prefix

RECURSIVE BodiesOf(_)
BodiesOf(n) ==
  IF n = 0 THEN {<<>>}
  ELSE LET shorter == BodiesOf(n - 1)
       IN  shorter \cup {b \o l \o <<NL>> : b \in shorter, l \in BodyLines}

\* Up to MaxLines terminated lines, then a possibly empty unterminated rest.
BodyTexts == {b \o l : b \in BodiesOf(MaxLines), l \in BodyLines}

DecodeCall == ChatStreamCall /\ UNCHANGED <<toolVars, replVars>>
DecodeFetch ==
  \E outcome \in FetchOutcomes :
    ChatStreamFetch(outcome) /\ pos' = 0 /\ UNCHANGED <<text, toolVars, replVars>>
DecodeReadError == ChatStreamReadError /\ UNCHANGED <<toolVars, replVars>>

\* read() returns the next k characters of the body.
DecodeReadCut ==
  \E k \in 1..(Len(text) - pos) :
    /\ ChatStreamRead(SubSeq(text, pos + 1, pos + k))
    /\ pos' = pos + k
    /\ UNCHANGED <<text, wire, toolVars, replVars>>

\* The body is exhausted.
DecodeEnd ==
  /\ pos = Len(text)
  /\ ChatStreamEnd
  /\ UNCHANGED <<toolVars, replVars>>

InitDecode == InitClient /\ text \in BodyTexts /\ InitTools /\ InitRepl

NextDecode ==
  \/ DecodeCall
  \/ DecodeFetch
  \/ DecodeReadCut
  \/ DecodeReadError
  \/ DecodeEnd

SpecDecode == InitDecode /\ [][NextDecode]_vars

----------------------------------------------------------------------------
(* The tool dispatcher on its own *)

PathArgs ==
  {Str(<<"a">>), Str(<<"d", "b">>), Str(<<"n">>), Str(<<"e", "n">>), Str(<<"d">>),
   Str(<<"..", "secret">>), Str(<<"/", "secret">>), Str(<<"d", "..", "..", "secret">>),
   Str(<<"d", "..", "a">>), Str(<<"..x">>), Str(<<"out", "secret">>),
   Undefined, NotAString}
ContentArgs == {Str(<<"x">>), Str(<<"X", "\n", " ", "y">>), Undefined}
GlobArgs ==
  {Str(<<"**", "*">>), Str(<<"*">>), Str(<<"d", "*">>), Str(<<"..", "*">>),
   Str(<<"/", "*">>), Str(<<"z">>), Undefined, NotAString}
RegExpArgs == {Str(<<"x">>), Str(<<"z">>), Str(<<"(">>), Undefined}
CommandArgs == {Str(<<"ls">>), Undefined}

ToolInvocations ==
  {[name |-> "read_file", args |-> [NoArgs EXCEPT !.path = p]] : p \in PathArgs}
  \cup {[name |-> "write_file", args |-> [NoArgs EXCEPT !.path = p, !.content = c]] :
          p \in PathArgs, c \in ContentArgs}
  \cup {[name |-> "list_files", args |-> [NoArgs EXCEPT !.pattern = g]] : g \in GlobArgs}
  \cup {[name |-> "search_files",
         args |-> [NoArgs EXCEPT !.pattern = r, !.glob_pattern = g]] :
          r \in RegExpArgs, g \in {Undefined, Str(<<"..", "*">>), Str(<<"/", "*">>)}}
  \cup {[name |-> "run_command", args |-> [NoArgs EXCEPT !.command = c]] : c \in CommandArgs}
  \cup {[name |-> n, args |-> NoArgs] : n \in {"nope", ""}}
  \cup {[name |-> n, args |-> NullArgs] : n \in ToolNames \cup {"nope"}}

ToolsCall ==
  \E inv \in ToolInvocations, env \in Envs :
    /\ ExecuteToolCall(inv.name, inv.args, env)
    /\ UNCHANGED <<streamVars, replVars>>

ToolsConfirm ==
  \E answer \in Answers :
    ExecuteToolConfirm(answer) /\ UNCHANGED <<streamVars, replVars>>

ToolsExecDone ==
  \E outcome \in ExecOutcomes :
    ExecuteToolExecDone(outcome) /\ UNCHANGED <<streamVars, replVars>>

\* The caller takes the result; the call's frame is gone.
ToolsReturn ==
  /\ toolPc = "returned"
  /\ toolPc' = "idle"
  /\ toolCall' = [name |-> "", args |-> NoArgs]
  /\ toolResult' = NoResult
  /\ toolLog' = NoLog
  /\ UNCHANGED <<fs, streamVars, replVars>>

InitToolsOnly == InitClient /\ model = "m" /\ text = <<>> /\ InitTools /\ InitRepl

NextTools == ToolsCall \/ ToolsConfirm \/ ToolsExecDone \/ ToolsReturn

SpecTools == InitToolsOnly /\ [][NextTools]_vars

----------------------------------------------------------------------------
(* search_files on its own, over projects with a long file *)

SearchProjects == {InitialFs, WithLongFile(ManyLines - 1), WithLongFile(ManyLines)}

SearchCall ==
  \E r \in RegExpArgs, g \in GlobArgs \cup {Str(<<>>)}, env \in Envs :
    /\ ExecuteToolCall("search_files",
                       [NoArgs EXCEPT !.pattern = r, !.glob_pattern = g], env)
    /\ UNCHANGED <<streamVars, replVars>>

InitSearch ==
  /\ InitClient /\ model = "m" /\ text = <<>> /\ InitRepl
  /\ fs \in SearchProjects
  /\ toolPc = "idle"
  /\ toolCall = [name |-> "", args |-> NoArgs]
  /\ toolResult = NoResult
  /\ toolLog = NoLog

NextSearch == SearchCall \/ ToolsReturn

SpecSearch == InitSearch /\ [][NextSearch]_vars

----------------------------------------------------------------------------
(* The Repl session *)

RECURSIVE Body(_)
\* The body made of one data line per payload.
Body(payloads) ==
  IF payloads = <<>> THEN <<>> ELSE DataLine(Head(payloads)) \o Body(Tail(payloads))

\* What the server may answer in a Repl session.
ReplBodies ==
  {Body(<<>>),
   Body(<<ContentPayload(<<"h">>), ContentPayload(<<"i">>)>>),
   Body(<<ToolPayload(<<Fragment(0, "a", "read_file", <<"{", "p:a", "}">>)>>),
          ToolPayload(<<Fragment(1, "a", "run_command", <<"{", "cmd:ls", "}">>)>>),
          FinishPayload("tool_calls")>>),
   Body(<<ContentPayload(<<"h">>),
          ToolPayload(<<Fragment(1, "", "nope", <<"x">>)>>),
          ToolPayload(<<Fragment(0, "", "list_files", <<"{", "g:../*", "}">>)>>)>>),
   Body(<<ToolPayload(<<Fragment(0, "b", "write_file", <<"{", "p:n">>)>>),
          ToolPayload(<<Fragment(0, "", "", <<"c:x", "}">>)>>),
          FinishPayload("stop")>>),
   Body(<<ToolPayload(<<Fragment(0, "a", "", <<"x">>)>>),
          FinishPayload("tool_calls"),
          FinishPayload("tool_calls"),
          ToolPayload(<<Fragment(1, "b", "", <<"y">>)>>)>>)}

Inputs ==
  {<<>>, <<" ">>, <<" ", "hi", " ">>, <<"/", "CLEAR">>, <<"/", "help", " ", "me">>,
   <<"/", "q">>}

Init == InitClient /\ text = <<>> /\ InitTools /\ InitRepl

Next ==
  \/ Start
  \/ \E input \in Inputs : PromptEmpty(input)
  \/ \E input \in Inputs : handleCommand(input)
  \/ \E input \in Inputs : processMessage(input)
  \/ \E outcome \in FetchOutcomes, body \in ReplBodies : GetResponseFetch(outcome, body)
  \/ GetResponseRead
  \/ GetResponseReadError
  \/ GetResponseEnd
  \/ processMessageCatch
  \/ \E env \in Envs : GetResponseTool(env)
  \/ \E answer \in Answers : GetResponseToolConfirm(answer)
  \/ \E outcome \in ExecOutcomes : GetResponseToolExecDone(outcome)
  \/ GetResponseToolResult

Spec == Init /\ [][Next]_vars

----------------------------------------------------------------------------
(* The Repl session when everything awaited settles and the model stops    *)
(* asking for tools: by its MaxTurns-th answer at the latest.               *)

\* The answers that ask for no tool.
QuietBodies ==
  {Body(<<>>), Body(<<ContentPayload(<<"h">>), ContentPayload(<<"i">>)>>)}

GetResponseFetchSettling ==
  \E outcome \in FetchOutcomes,
     body \in (IF turns < MaxTurns THEN ReplBodies ELSE QuietBodies) :
    GetResponseFetch(outcome, body)

\* The steps a running processMessage waits for.
TurnStep ==
  \/ GetResponseFetchSettling
  \/ GetResponseRead
  \/ GetResponseReadError
  \/ GetResponseEnd
  \/ processMessageCatch
  \/ \E env \in Envs : GetResponseTool(env)
  \/ \E answer \in Answers : GetResponseToolConfirm(answer)
  \/ \E outcome \in ExecOutcomes : GetResponseToolExecDone(outcome)
  \/ GetResponseToolResult

NextSettling ==
  \/ Start
  \/ \E input \in Inputs : PromptEmpty(input)
  \/ \E input \in Inputs : handleCommand(input)
  \/ \E input \in Inputs : processMessage(input)
  \/ TurnStep

\* ENABLED <<TurnStep>>_vars, from the guards of the steps: a running
\* processMessage always has a step to wait for, short of the MaxTurns cap.
TurnStepEnabled ==
  /\ replPc \in {"streaming", "tools"}
  /\ (replPc = "tools" /\ toolPc = "returned" /\ callIdx = Len(toolCalls)) => turns < MaxTurns

\* WF_vars(TurnStep) with its ENABLED written out: whatever a running
\* processMessage awaits (the response, a read, the user's answer, the
\* subprocess) settles.
TurnStepFair == []<>(~TurnStepEnabled) \/ []<><<TurnStep>>_vars

SpecSettling == Init /\ [][NextSettling]_vars /\ TurnStepFair

----------------------------------------------------------------------------
(* Claims about the stream client *)

RECURSIVE ConcatArgs(_, _)
\* The argument chunks of the fragments with this index, in arrival order.
ConcatArgs(frags, index) ==
  IF frags = <<>> THEN <<>>
  ELSE (IF Head(frags).index = index THEN Head(frags).arguments ELSE <<>>)
       \o ConcatArgs(Tail(frags), index)

RECURSIVE ArgsSent(_, _)
ArgsSent(w, index) ==
  IF w = <<>> THEN <<>>
  ELSE ConcatArgs(Head(w).tool_calls, index) \o ArgsSent(Tail(w), index)

NewEvents == {j \in 1..Len(events') : j > Len(events) \/ csPc # "reading"}

\* C3: fragmentation invariance.  Every record of a tool_calls event, when
\* the event is yielded, has as arguments the concatenation in arrival order
\* of the argument chunks sent so far for its index, and so has every
\* record of the accumulator at any time.
C3_FragmentationInvariance ==
  [][/\ \A j \in NewEvents :
          \A k \in 1..Len(events'[j].tool_calls) :
            events'[j].tool_calls[k].arguments
              = ArgsSent(wire', events'[j].tool_calls[k].index)
     /\ \A k \in 1..Len(toolCallsMap') :
          toolCallsMap'[k].arguments = ArgsSent(wire', toolCallsMap'[k].index)
    ]_vars

\* C3 witness: x and y for index 0 arrived in separate deltas with a delta
\* for index 1 between them, and the event carrying "xy" has been yielded.
C3_Witness ==
  /\ csPc = "done"
  /\ Len(wire) = 3
  /\ wire[1] = ToolPayload(<<Fragment(0, "", "", <<"x">>)>>)
  /\ wire[2] = ToolPayload(<<Fragment(1, "b", "f", <<>>)>>)
  /\ wire[3] = ToolPayload(<<Fragment(0, "", "", <<"y">>)>>)
  /\ events # <<>>
  /\ Last(events).type = "tool_calls"
  /\ Last(events).tool_calls[1].arguments = <<"x", "y">>

\* The events chatStream yields when the whole body arrives as one fragment.
OneFragmentRun(body) ==
  FinalCheck(ProcessChunk([map |-> <<>>, events |-> <<>>], <<>>, body)).events

\* C4: line-buffer invariance.  However the body is cut into fragments, the
\* events yielded once the stream has ended are those of the run in which the
\* body arrives as one fragment; and while reading, the events so far are
\* those of the part of the body received so far arriving as one fragment.
C4_LineBufferInvariance ==
  /\ csPc = "done" => events = OneFragmentRun(text)
  /\ csPc = "reading" =>
       events = ProcessChunk([map |-> <<>>, events |-> <<>>], <<>>,
                             SubSeq(text, 1, pos)).events

\* C4 witness: after one line has produced an event, a read has stopped in
\* the middle of the next data line, which is held in the buffer.
C4_Witness ==
  /\ csPc = "reading"
  /\ Len(events) = 1
  /\ buffer = DataPrefix \o <<Tok("{")>>
  /\ pos < Len(text)
  /\ text[pos + 1] = JTok(FinishPayload("tool_calls"))

TimesEmitted(index) ==
  Cardinality({j \in 1..Len(events) :
                 /\ events[j].type = "tool_calls"
                 /\ \E k \in 1..Len(events[j].tool_calls) :
                      events[j].tool_calls[k].index = index})

\* C5: within one invocation the record of an index is emitted in at most
\* one tool_calls event.
C5_EmittedAtMostOnce ==
  csPc = "done" => \A index \in Indices : TimesEmitted(index) <= 1

\* C6: every tool_calls event lists its records in ascending index order.
C6_AscendingIndexOrder ==
  \A j \in 1..Len(events) :
    \A k1, k2 \in 1..Len(events[j].tool_calls) :
      k1 < k2 => events[j].tool_calls[k1].index < events[j].tool_calls[k2].index

----------------------------------------------------------------------------
(* Claims about the Repl *)

\* The assistant message at history[i] asks for tools.
AsksTools(i) == history[i].role = "assistant" /\ Len(history[i].tool_calls) > 0

\* The tool loop is still working on the requests of history[i].
InProgress(i) == replPc = "tools" /\ i = Len(turnStart) + 1

\* How many tool messages must follow the assistant message at history[i].
Answered(i) == IF InProgress(i) THEN callIdx - 1 ELSE Len(history[i].tool_calls)

\* C1: every assistant message carrying tool calls c1..cn is immediately
\* followed by exactly n tool messages, the k-th answering ck.id (by only the
\* first callIdx - 1 of them while the tool loop is still at work); the
\* assistant message carries exactly the collected calls; and every tool
\* message belongs to such a run, so none precedes its assistant message.
C1_ToolMessagesFollowAssistant ==
  /\ \A i \in 1..Len(history) :
       AsksTools(i) =>
         /\ i + Answered(i) <= Len(history)
         /\ \A k \in 1..Answered(i) :
              /\ history[i + k].role = "tool"
              /\ history[i + k].tool_call_id = history[i].tool_calls[k].id
         /\ i + Answered(i) < Len(history) => history[i + Answered(i) + 1].role # "tool"
  /\ \A j \in 1..Len(history) :
       history[j].role = "tool" =>
         \E i \in 1..(j - 1) : AsksTools(i) /\ j - i <= Answered(i)
  /\ replPc = "tools" =>
       /\ Len(history) = Len(turnStart) + callIdx
       /\ SubSeq(history, 1, Len(turnStart)) = turnStart
       /\ history[Len(turnStart) + 1]
            = Message("assistant", IF fullContent # <<>> THEN Str(fullContent) ELSE Null,
                      [k \in 1..Len(toolCalls) |-> ToolCallOf(toolCalls[k])], "")
       /\ toolCalls # <<>>

\* C1 witness: a turn that collected two tool calls is over; the history
\* ends with its assistant message and the two tool messages.
C1_Witness ==
  /\ replPc = "streaming"
  /\ Len(history) >= 5
  /\ history[Len(history) - 2].role = "assistant"
  /\ Len(history[Len(history) - 2].tool_calls) = 2
  /\ history[Len(history) - 1].role = "tool"
  /\ history[Len(history)].role = "tool"

\* The assistant message nearest before history[j].
NearestAssistant(j) ==
  CHOOSE i \in 0..(j - 1) :
    /\ i > 0 => history[i].role = "assistant"
    /\ \A m \in (i + 1)..(j - 1) : history[m].role # "assistant"

\* C2: each tool message's tool_call_id matches exactly one tool-call id of
\* the nearest preceding assistant message, and no earlier tool message
\* after that assistant message carries the same id.
C2_LinkageIdUnique ==
  \A j \in 1..Len(history) :
    history[j].role = "tool" =>
      LET i == NearestAssistant(j)
      IN  /\ i > 0
          /\ Cardinality({k \in 1..Len(history[i].tool_calls) :
                            history[i].tool_calls[k].id = history[j].tool_call_id}) = 1
          /\ \A m \in (i + 1)..(j - 1) :
               history[m].role = "tool" =>
                 history[m].tool_call_id # history[j].tool_call_id

\* C7: an empty turn.  processMessage appends the user message and nothing
\* else before the request; nothing is appended while the response streams;
\* and when the stream ends with no content and no tool calls, getResponse
\* returns to the prompt with the history as it was.
C7_EmptyTurn ==
  [][/\ (replPc = "prompt" /\ replPc' = "streaming") =>
          /\ Len(history') = Len(history) + 1
          /\ SubSeq(history', 1, Len(history)) = history
          /\ Last(history').role = "user"
          /\ turnStart' = history'
     /\ (replPc = "streaming" /\ replPc' = "streaming") => history' = history
     /\ (replPc = "streaming" /\ csPc' = "done" /\ fullContent' = <<>> /\ toolCalls' = <<>>) =>
          /\ history' = turnStart
          /\ replPc' = "prompt"
    ]_vars

\* C7 witness: a first turn has ended with nothing; the history is the
\* system message and the user message.
C7_Witness ==
  /\ replPc = "prompt"
  /\ csPc = "done"
  /\ turns = 1
  /\ fullContent = <<>>
  /\ toolCalls = <<>>
  /\ Len(history) = 2
  /\ history[2].role = "user"

\* C8: a failed chatStream.  While a turn streams the history is the one the
\* chatStream call started with; once chatStream has failed, the only step is
\* processMessage's handler, which returns to the prompt with that history.
C8_FailedTurnDiscarded ==
  [][/\ (replPc' = "streaming") => history' = turnStart'
     /\ (replPc = "streaming" /\ csPc = "failed") =>
          /\ replPc' = "prompt"
          /\ history' = turnStart
    ]_vars

\* C8 witness: the follow-up turn after a tool round failed to a read error
\* after the content "h" had arrived; the history ends with the tool results.
C8_Witness ==
  /\ replPc = "prompt"
  /\ csPc = "failed"
  /\ fullContent = <<"h">>
  /\ round = 2
  /\ history = turnStart
  /\ Last(history).role = "tool"

----------------------------------------------------------------------------
(* Claims about executeTool *)

C10_SandboxBeforeEveryOperation ==
  \A t \in toolLog.touched :
    (toolCall.name \in {"read_file", "write_file", "list_files", "search_files"}
       /\ t.op \in {"read", "list", "write"}) => InsideRoot(t.path)

\* The call is a read_file or write_file whose path the sandbox rejects.
RejectedPathCall(call) ==
  /\ call.name \in {"read_file", "write_file"}
  /\ call.args.kind = "object"
  /\ call.args.path.t = "str"
  /\ ~isPathSafe(projectRoot, ParsePath(call.args.path.v))

\* C11: read_file and write_file with a path the sandbox rejects return the
\* failure 'Error: Path traversal not allowed' without any file system
\* operation (no existence check, read, mkdir or write) and leave the file
\* system as it was.
C11_RejectedBeforeAnyAccess ==
  [][(toolPc = "idle" /\ toolPc' # "idle" /\ RejectedPathCall(toolCall')) =>
       /\ toolPc' = "returned"
       /\ toolResult' = ToolResult(FALSE, <<"Error: Path traversal not allowed">>)
       /\ toolLog'.touched = {}
       /\ fs' = fs
    ]_vars

\* C11 witness: write_file for ../secret has returned the rejection and
\* nothing was touched.
C11_Witness ==
  /\ toolPc = "returned"
  /\ toolCall.name = "write_file"
  /\ toolCall.args.path = Str(<<"..", "secret">>)
  /\ toolCall.args.content.t = "str"
  /\ toolResult.result = <<"Error: Path traversal not allowed">>
  /\ toolLog.touched = {}

\* The call is a read_file or write_file with a string for its path.
PathCall(call) ==
  /\ call.name \in {"read_file", "write_file"}
  /\ call.args.kind = "object"
  /\ call.args.path.t = "str"

\* A relative path of name segments: no ".", no "..", no empty segment, and
\* no name that begins with two dots.
PlainNames(str) ==
  /\ str # <<>>
  /\ \A k \in 1..Len(str) : str[k] \notin {"/", ".", ""} \cup DotDotNames

\* C12: sandbox containment.  A path whose lexical resolution against the
\* root is not the root or beneath it is rejected (so are ../secret, /secret
\* and d/../../secret), and a path of plain name segments is not rejected.
C12_SandboxContainment ==
  (toolPc = "returned" /\ PathCall(toolCall)) =>
    LET requested == ParsePath(toolCall.args.path.v)
        rejected == toolResult.result = <<"Error: Path traversal not allowed">>
    IN  /\ ~InsideRoot(resolve(projectRoot, requested)) => rejected
        /\ PlainNames(toolCall.args.path.v) => ~rejected

\* C12 witness: d/../../secret, whose first segment is a plain name, was
\* rejected.
C12_Witness ==
  /\ toolPc = "returned"
  /\ toolCall.name = "read_file"
  /\ toolCall.args.path = Str(<<"d", "..", "..", "secret">>)
  /\ toolResult.result = <<"Error: Path traversal not allowed">>

\* C13: read_file and write_file never read or write a file outside the
\* project root, also when the requested relative path passes through a
\* symbolic link that lies under the root and points outside it.
C13_NoEscapeThroughLinks ==
  toolCall.name \in {"read_file", "write_file"} =>
    \A t \in toolLog.touched : t.op \in {"read", "write"} => InsideRoot(t.path)

\* The answers that are 'y' or 'yes' when letter case is ignored.
Affirmative == {"y", "Y", "yes", "YES", "Yes", "yeS", "yEs", "yES", "YEs", "YeS"}

\* C14: no subprocess is started before the prompt has returned true: a
\* command has been executed only after an affirmative answer, and after any
\* other answer executeTool returns the failure 'Command cancelled by user'
\* with nothing executed.
C14_ConfirmBeforeExecute ==
  /\ toolLog.executed # <<>> =>
       /\ toolLog.answer \in Affirmative
       /\ toolPc \in {"exec", "returned"}
  /\ (toolCall.name = "run_command" /\ toolLog.answer \notin Affirmative \cup {Unasked}) =>
       /\ toolPc = "returned"
       /\ toolResult = ToolResult(FALSE, <<"Command cancelled by user">>)
       /\ toolLog.executed = <<>>

\* C14 witness: the user pressed return at the prompt and the call came
\* back cancelled.
C14_Witness ==
  /\ toolPc = "returned"
  /\ toolCall.name = "run_command"
  /\ toolCall.args.command = Str(<<"ls">>)
  /\ toolLog.answer = ""
  /\ toolLog.executed = <<>>

----------------------------------------------------------------------------
(* Claims about tool results in the Repl *)

\* executeTool has returned to getResponse's tool loop.
ToolReturned == replPc = "tools" /\ toolPc = "returned"

\* The run_command call was declined, or its subprocess was started and
\* failed: timeout, output overflow or non-zero exit.
CommandDeclinedOrFailed ==
  /\ toolCall.name = "run_command"
  /\ \/ toolLog.answer \notin Affirmative \cup {Unasked}
     \/ toolLog.executed # <<>> /\ toolLog.threw

\* The tool message getResponse owes for the call it is at.
OwedToolMessage ==
  [role |-> "tool", content |-> Str(toolResult.result), tool_calls |-> <<>>,
   tool_call_id |-> toolCalls[callIdx].id]

\* C15: a run_command that was declined, timed out, overflowed the output
\* buffer or exited non-zero returns success=false; no exception reaches the
\* orchestrator, which appends the result as the tool message and goes on
\* with the turn (the next tool call or the follow-up model turn).
C15_CommandBounds ==
  /\ [](toolPc # "thrown")
  /\ []((ToolReturned /\ CommandDeclinedOrFailed) => ~toolResult.success)
  /\ [][(ToolReturned /\ CommandDeclinedOrFailed) =>
          /\ history' = Append(history, OwedToolMessage)
          /\ replPc' \in {"tools", "streaming"}
       ]_vars

\* C15 witness: the command timed out, and the follow-up model turn is
\* under way with that failure as the last message.
C15_Witness ==
  /\ replPc = "streaming"
  /\ round = 2
  /\ Last(history).role = "tool"
  /\ Last(history).content = Str(<<"Command failed: ", "timeout", "\n">>)

\* C16: whenever executeTool returns success=false, getResponse appends the
\* tool message with the error text and the call's id, then goes to the next
\* tool call of the turn, or after the last one starts the follow-up model
\* turn.
C16_ToolErrorsConversational ==
  [][(ToolReturned /\ ~toolResult.success) =>
       /\ history' = Append(history, OwedToolMessage)
       /\ toolPc' = "idle"
       /\ IF callIdx < Len(toolCalls)
          THEN replPc' = "tools" /\ callIdx' = callIdx + 1 /\ toolCalls' = toolCalls
          ELSE /\ replPc' = "streaming"
               /\ round' = round + 1
               /\ turnStart' = history'
               /\ csPc' \in {"fetch", "failed"}
    ]_vars

\* C16 witness: the first tool call of a turn failed, the second one ran
\* after it, and the follow-up model turn has been started.
C16_Witness ==
  /\ replPc = "streaming"
  /\ round = 2
  /\ Len(history) >= 5
  /\ history[Len(history) - 1].role = "tool"
  /\ history[Len(history) - 1].content = Str(<<"Tool execution error: ">>)
  /\ history[Len(history)].role = "tool"
  /\ history[Len(history)].content = Str(<<"out">>)

\* The history h is the beginning of the history g.
IsPrefix(h, g) == Len(h) <= Len(g) /\ SubSeq(g, 1, Len(h)) = h

\* C17: the history is append-only between resets.  Every step of
\* processMessage and getResponse keeps the messages there are as a prefix;
\* the steps of chatStream and of executeTool leave the history alone; only
\* start and a command at the prompt (/clear) replace it, by the system
\* message alone.
C17_AppendOnlyHistory ==
  [][/\ IsPrefix(history, history')
        \/ /\ replPc = "new" \/ (replPc = "prompt" /\ replPc' \in {"prompt", "exited"})
           /\ history' = <<SystemMessage>>
     /\ (replPc = "streaming" /\ replPc' = "streaming") => history' = history
     /\ (replPc = "tools" /\ toolPc' # "idle") => history' = history
    ]_vars

\* C17 witness: a turn with a tool round and a final answer is over, and
\* the history holds all of it behind the system message.
C17_Witness ==
  /\ replPc = "prompt"
  /\ Len(history) = 6
  /\ history[1] = SystemMessage
  /\ history[2].role = "user"
  /\ history[3].role = "assistant"
  /\ history[4].role = "tool"
  /\ history[5].role = "tool"
  /\ history[6].role = "assistant"

----------------------------------------------------------------------------
(* Claims about the order of tool executions *)

\* C19: while executeTool is at work the stream of the turn is over and none
\* is open, the call at work is toolCalls[callIdx], and the history ends with
\* the assistant message of the turn followed by the result messages of the
\* calls 1..callIdx-1, in order: call i+1 starts only after the result of
\* call i has been appended.
C19_SequentialTools ==
  toolPc # "idle" =>
    /\ replPc = "tools"
    /\ csPc \notin {"fetch", "reading"}
    /\ callIdx \in 1..Len(toolCalls)
    /\ toolCall.name = toolCalls[callIdx].name
    /\ LET asking == Len(history) - callIdx + 1
       IN  /\ asking >= 1
           /\ AsksTools(asking)
           /\ Len(history[asking].tool_calls) = Len(toolCalls)
           /\ \A k \in 1..(callIdx - 1) :
                /\ history[asking + k].role = "tool"
                /\ history[asking + k].tool_call_id = toolCalls[k].id

\* C19 witness: the second tool of a turn waits for its confirmation, and
\* the result of the first is the last message of the history.
C19_Witness ==
  /\ replPc = "tools"
  /\ toolPc = "confirm"
  /\ callIdx = 2
  /\ toolCall.name = "run_command"
  /\ history[Len(history)].role = "tool"
  /\ history[Len(history) - 1].role = "assistant"

----------------------------------------------------------------------------
(* Claims about content events *)

\* The payload's first choice carries non-empty delta.content.
CarriesContent(p) == p.choices = "one" /\ p.content # <<>>

\* The events a step of the running generator has yielded.
Yielded == SubSeq(events', Len(events) + 1, Len(events'))

ContentYielded == {j \in 1..Len(Yielded) : Yielded[j].type = "content"}

\* C20: a step of the running generator only adds events; the step that
\* decodes a payload carrying content yields its content event at once and
\* first, ahead of the payload's tool_calls event, and no other content
\* event; a step that decodes no such payload yields no content event.
C20_ContentInArrivalOrder ==
  [][csPc = "reading" =>
       /\ IsPrefix(events, events')
       /\ IF Len(wire') = Len(wire) + 1 /\ CarriesContent(wire'[Len(wire')])
          THEN /\ ContentYielded = {1}
               /\ Yielded[1] = ContentEvent(wire'[Len(wire')].content)
          ELSE ContentYielded = {} ]_vars

\* C20 witness: a payload with content, then one with content, fragments
\* and finish_reason 'tool_calls', have been decoded: two content events in
\* that order, then the tool_calls event.
C20_Witness ==
  /\ csPc = "reading"
  /\ Len(wire) = 2
  /\ wire[1] = ContentPayload(<<"h">>)
  /\ wire[2].content = <<"i">>
  /\ wire[2].finish_reason = "tool_calls"
  /\ Len(events) = 3
  /\ events[1] = ContentEvent(<<"h">>)
  /\ events[2] = ContentEvent(<<"i">>)
  /\ events[3].type = "tool_calls"

----------------------------------------------------------------------------
(* Claims about the model check *)

\* C21: a chatStream call made while no model is selected throws the Error
\* 'No model selected...' at once: it never reaches fetch, and it has
\* yielded no event.
C21_NoModelFailsFirst ==
  /\ [](model = NoModel => csPc \in {"idle", "failed"} /\ events = <<>>)
  /\ [][(model = NoModel /\ csPc' # csPc) =>
          /\ csPc' = "failed"
          /\ csError' = "No model selected. Call setModel() first."]_vars

\* C21 witness: the call has failed on the missing model.
C21_Witness ==
  /\ model = NoModel
  /\ csPc = "failed"
  /\ csError = "No model selected. Call setModel() first."
  /\ events = <<>>

----------------------------------------------------------------------------
(* Claims about /clear *)

\* C22: once start has run the history is never empty and its first message
\* is the system message; and the step that handles the command /clear, in
\* any case of letters, leaves exactly the system message, whatever the
\* history was.
C22_ClearKeepsSystemPrompt ==
  /\ [](replPc # "new" => history # <<>> /\ history[1] = SystemMessage)
  /\ [][\A input \in Inputs :
          (handleCommand(input) /\ CommandName(input) = "clear") =>
            history' = <<SystemMessage>>]_vars

\* C22 witness: a message was processed and left its trace, and after
\* /clear the history is the system message alone.
C22_Witness ==
  /\ replPc = "prompt"
  /\ turns >= 1
  /\ history = <<SystemMessage>>

----------------------------------------------------------------------------
(* Claims about the end of processMessage *)

InTurn == replPc \in {"streaming", "tools"}

\* The step in which getResponse sees its stream end.
TurnEnds == replPc = "streaming" /\ csPc = "reading" /\ csPc' = "done"

\* C23: a running processMessage eventually returns; short of an error it
\* returns in the very step that ends a turn without tool calls, with one
\* assistant message appended when that turn had content and none
\* otherwise, and in no other step: a turn with tool calls goes on to its
\* tools, and the last tool result goes on to the next turn.
C23_ToolLoopEnds ==
  /\ InTurn ~> replPc = "prompt"
  /\ [][TurnEnds => (replPc' = "prompt" <=> toolCalls' = <<>>)]_vars
  /\ [][(InTurn /\ replPc' = "prompt") =>
          \/ csPc = "failed" /\ history' = history
          \/ /\ TurnEnds
             /\ toolCalls' = <<>>
             /\ history' = IF fullContent' # <<>>
                           THEN Append(history,
                                       Message("assistant", Str(fullContent'), <<>>, ""))
                           ELSE history ]_vars

\* C23 witness: processMessage has returned after a round of tools and a
\* second turn that only had content.
C23_Witness ==
  /\ replPc = "prompt"
  /\ round = 2
  /\ csPc = "done"
  /\ Len(history) >= 5
  /\ history[Len(history)].role = "assistant"
  /\ history[Len(history)].tool_calls = <<>>
  /\ history[Len(history) - 1].role = "tool"

----------------------------------------------------------------------------
(* Claims about the assistant message *)

RECURSIVE ContentSent(_)
\* The content fragments a response body carries, concatenated in the order
\* of its lines.
ContentSent(body) ==
  IF body = <<>> THEN <<>>
  ELSE (IF Head(body).c = "json" /\ Head(body).json.choices = "one"
        THEN Head(body).json.content ELSE <<>>) \o ContentSent(Tail(body))

\* C24: when the stream of a turn ends, the assistant message appended for
\* it carries the content fragments of this response, concatenated in their
\* order, and nothing of an earlier response; with tool calls and no
\* content its content is null; with neither, no message is appended.
C24_AssistantContent ==
  [][TurnEnds =>
       LET sent == ContentSent(text)
           last == history'[Len(history')]
       IN  IF toolCalls' # <<>>
           THEN /\ Len(history') = Len(history) + 1
                /\ last.role = "assistant"
                /\ last.content = (IF sent # <<>> THEN Str(sent) ELSE Null)
           ELSE IF sent # <<>>
           THEN /\ Len(history') = Len(history) + 1
                /\ last.role = "assistant"
                /\ last.content = Str(sent)
           ELSE history' = history ]_vars

\* C24 witness: the first turn had content and tool calls, the second has
\* tool calls only: its assistant message has null content.
C24_Witness ==
  /\ replPc = "tools"
  /\ round = 2
  /\ history[Len(turnStart) + 1].content = Null
  /\ \E i \in 1..Len(turnStart) :
       AsksTools(i) /\ history[i].content = Str(<<"h">>)

----------------------------------------------------------------------------
(* Claims about the accumulator *)

\* The record of an index in a map, as a set of at most one record.
RecordsOf(map, index) == {map[k] : k \in {j \in 1..Len(map) : map[j].index = index}}

\* The non-empty values a payload's fragments for an index give a field, in
\* order.
Given(p, index, field) ==
  SelectSeq([k \in 1..Len(p.tool_calls) |->
               IF p.tool_calls[k].index = index THEN p.tool_calls[k][field] ELSE ""],
            LAMBDA v : v # "")

\* What a field of the record holds after the payload: the last value given,
\* or what it held, or "" in a record just created.
FieldAfter(map, p, index, field) ==
  LET given == Given(p, index, field)
  IN  IF given # <<>> THEN given[Len(given)]
      ELSE IF RecordsOf(map, index) = {} THEN ""
      ELSE (CHOOSE r \in RecordsOf(map, index) : TRUE)[field]

Mentions(p, index) == \E k \in 1..Len(p.tool_calls) : p.tool_calls[k].index = index

\* C25: the accumulator never holds two records of one index; a decoded
\* payload leaves the records of the indices it does not mention as they
\* were, and for an index it mentions there is then one record, created if
\* there was none, whose id and name are the last non-empty ones the
\* payload gave, or else what they were.
C25_MergeRules ==
  /\ [](\A index \in Indices : Cardinality(RecordsOf(toolCallsMap, index)) <= 1)
  /\ [][(csPc = "reading" /\ Len(wire') = Len(wire) + 1) =>
          LET p == wire'[Len(wire')]
          IN  \A index \in Indices :
                IF p.choices = "one" /\ Mentions(p, index)
                THEN \E r \in RecordsOf(toolCallsMap', index) :
                       /\ r.id = FieldAfter(toolCallsMap, p, index, "id")
                       /\ r.name = FieldAfter(toolCallsMap, p, index, "name")
                ELSE RecordsOf(toolCallsMap', index) = RecordsOf(toolCallsMap, index) ]_vars

\* C25 witness: the record of index 0 was created with id a and name f, a
\* fragment for index 1 has come in between, and a later fragment for index
\* 0 has overwritten the id and left the name.
C25_Witness ==
  /\ csPc = "reading"
  /\ Len(wire) = 3
  /\ wire[1] = ToolPayload(<<Fragment(0, "a", "f", <<>>)>>)
  /\ Mentions(wire[2], 1)
  /\ wire[3] = ToolPayload(<<Fragment(0, "b", "", <<>>)>>)
  /\ Len(toolCallsMap) = 2
  /\ toolCallsMap[1].id = "b"
  /\ toolCallsMap[1].name = "f"

----------------------------------------------------------------------------
(* Claims about the final check *)

\* No payload of the response carried finish_reason 'tool_calls'.
NoSignal == \A k \in 1..Len(wire) : wire[k].finish_reason # "tool_calls"

ToolCallsYielded == {j \in 1..Len(events) : events[j].type = "tool_calls"}

\* C26: a stream that has ended without the completion signal has yielded
\* one tool_calls event, its last event, holding all the records, when some
\* record has a name, and no tool_calls event when there is no record or no
\* record has a name.
C26_FinalCheckFallback ==
  (csPc = "done" /\ NoSignal) =>
    IF \E k \in 1..Len(toolCallsMap) : toolCallsMap[k].name # ""
    THEN /\ ToolCallsYielded = {Len(events)}
         /\ events[Len(events)].tool_calls = toolCallsMap
    ELSE ToolCallsYielded = {}

\* C26 witness: two records, one of them named, no completion signal, and
\* the stream has ended with the tool_calls event.
C26_Witness ==
  /\ csPc = "done"
  /\ NoSignal
  /\ Len(toolCallsMap) = 2
  /\ toolCallsMap[1].name = ""
  /\ toolCallsMap[2].name = "f"
  /\ ToolCallsYielded = {Len(events)}

----------------------------------------------------------------------------
(* Claims about lines that do not decode *)

\* The line decoded to a payload with a first choice.
Usable(p) == p.choices = "one"

\* C27: the read of a data line that is no JSON document, or whose payload
\* has no first choice, yields nothing, throws nothing and leaves the
\* records and the buffer as they were; and at any time the events and the
\* records are those of the same response without such lines.
C27_MalformedLinesSkipped ==
  /\ [][(csPc = "reading" /\ Len(wire') = Len(wire) + 1 /\ ~Usable(wire'[Len(wire')])) =>
          /\ events' = events
          /\ toolCallsMap' = toolCallsMap
          /\ buffer' = buffer
          /\ csPc' = "reading"
          /\ csError' = ""]_vars
  /\ [](csPc = "reading" =>
          LET clean == ProcessChunk([map |-> <<>>, events |-> <<>>], <<>>,
                                    Body(SelectSeq(wire, Usable)))
          IN  events = clean.events /\ toolCallsMap = clean.map)

\* C27 witness: a fragment, then a line with cut-off JSON, then a second
\* fragment for the same record have been read; the record holds both
\* chunks.
C27_Witness ==
  /\ csPc = "reading"
  /\ Len(wire) = 3
  /\ wire[1] = ToolPayload(<<Fragment(0, "", "", <<"x">>)>>)
  /\ wire[2] = Unparsed
  /\ wire[3] = ToolPayload(<<Fragment(0, "", "", <<"y">>)>>)
  /\ Len(toolCallsMap) = 1
  /\ toolCallsMap[1].arguments = <<"x", "y">>

----------------------------------------------------------------------------
(* Claims about the prompt *)

\* A stream is open or a tool call is at work.
Busy == csPc \in {"fetch", "reading"} \/ toolPc # "idle"

\* C28: a user message is appended, and the history is reset by /clear,
\* only at the prompt, where no stream is open and no tool is at work; a
\* stream is open and a tool is at work only inside a turn; and a request
\* is sent only when no stream is open and no tool is left at work.
C28_OneMessageAtATime ==
  /\ [](Busy => InTurn)
  /\ [][(Len(history') = Len(history) + 1 /\ history'[Len(history')].role = "user") =>
          replPc = "prompt" /\ ~Busy]_vars
  /\ [][(history' # history /\ history' = <<SystemMessage>>) =>
          replPc \in {"new", "prompt"} /\ ~Busy]_vars
  /\ [][(csPc # "fetch" /\ csPc' = "fetch") =>
          csPc # "reading" /\ toolPc \in {"idle", "returned"} /\ toolPc' = "idle"]_vars

\* C28 witness: the first message has been answered, and the second is on
\* its way to the model.
C28_Witness ==
  /\ replPc = "streaming"
  /\ csPc = "fetch"
  /\ Len(history) = 4
  /\ history[2].role = "user"
  /\ history[3].role = "assistant"
  /\ history[4].role = "user"

----------------------------------------------------------------------------
(* Claims about several tool_calls events in one turn *)

\* The tool_calls events of the stream that is ending.
SignalsSeen == {j \in 1..Len(events') : events'[j].type = "tool_calls"}

LastSignal == CHOOSE j \in SignalsSeen : \A i \in SignalsSeen : i <= j

IndicesOf(records) == {records[k].index : k \in 1..Len(records)}

\* C29: when the stream of a turn ends after tool_calls events, one
\* assistant message is appended; the calls of the turn are the records the
\* last of these events lists, each once, as the accumulator holds them at
\* the end, and they are all the records of the accumulator when one of
\* them has a name; and the tool loop goes through them one by one, never
\* going back.
C29_LastToolCallsEventWins ==
  /\ [][(TurnEnds /\ SignalsSeen # {}) =>
          LET listed == events'[LastSignal].tool_calls
          IN  /\ Len(history') = Len(history) + 1
              /\ history'[Len(history')].role = "assistant"
              /\ Len(history'[Len(history')].tool_calls) = Len(listed)
              /\ Len(toolCalls') = Len(listed)
              /\ Cardinality(IndicesOf(toolCalls')) = Len(toolCalls')
              /\ \A k \in 1..Len(listed) :
                   /\ toolCalls'[k].index = listed[k].index
                   /\ toolCalls'[k] \in RecordsOf(toolCallsMap', listed[k].index)
              /\ (\E k \in 1..Len(toolCallsMap') : toolCallsMap'[k].name # "") =>
                   IndicesOf(toolCalls') = IndicesOf(toolCallsMap')
              /\ replPc' = "tools"
              /\ callIdx' = 1]_vars
  /\ [][(replPc = "tools" /\ replPc' = "tools") =>
          /\ toolCalls' = toolCalls
          /\ callIdx' = (IF toolPc = "returned" THEN callIdx + 1 ELSE callIdx)]_vars

\* C29 witness: the completion signal and the final check have both
\* yielded the two records, and the turn has one assistant message with
\* two calls.
C29_Witness ==
  /\ replPc = "tools"
  /\ csPc = "done"
  /\ Cardinality({j \in 1..Len(events) : events[j].type = "tool_calls"}) = 2
  /\ Len(toolCallsMap) = 2
  /\ Len(toolCalls) = 2
  /\ Len(history[Len(turnStart) + 1].tool_calls) = 2

\* C29 as stated: after several tool_calls events, every record of the
\* accumulator is among the calls of the turn.
C29_EveryRecordExecuted ==
  [][(TurnEnds /\ Cardinality(SignalsSeen) >= 2) =>
       IndicesOf(toolCalls') = IndicesOf(toolCallsMap')]_vars

----------------------------------------------------------------------------
(* Claims about the end of the body *)

\* Where the last newline of the body is, 0 when it has none.
LastNewline ==
  LET ends == {k \in 1..Len(text) : text[k] = NL}
  IN  IF ends = {} THEN 0 ELSE CHOOSE k \in ends : \A j \in ends : j <= k

\* C30: once the stream has ended, what follows the last newline of the
\* body is still in the buffer, and the events and the records are those of
\* the body up to that newline: the unterminated rest, a whole data line or
\* not, has yielded nothing and added nothing.
C30_ResidueNeverDecoded ==
  csPc = "done" =>
    LET run == ProcessChunk([map |-> <<>>, events |-> <<>>], <<>>,
                            SubSeq(text, 1, LastNewline))
    IN  /\ buffer = SubSeq(text, LastNewline + 1, Len(text))
        /\ toolCallsMap = run.map
        /\ events = FinalCheck([map |-> run.map, events |-> run.events]).events

\* C30 witness: the body ended with a whole data line carrying content but
\* no newline; the stream has ended with the line in the buffer and no
\* content event for it.
C30_Witness ==
  /\ csPc = "done"
  /\ Len(text) > Len(buffer)
  /\ buffer = DataPrefix \o <<Tok("{"), JTok(ContentPayload(<<"h">>)), Tok("}")>>
  /\ \A j \in 1..Len(events) : events[j].type # "content"

----------------------------------------------------------------------------
(* Claims about calls that cannot be carried out *)

\* The argument string is no JSON document.
Unparseable(arguments) == arguments # <<"null">> /\ ~IsObjectText(arguments)

\* C31: the tool loop of a turn comes to its end; every call it reaches is
\* dispatched under its own name, with the empty mapping when its arguments
\* do not parse; and when the loop is over the history ends with the
\* assistant message and one tool message for each of its calls, in order,
\* each under the id of its call, saying 'Unknown tool: name' for a name
\* that is no tool.
C31_EveryCallAnswered ==
  /\ replPc = "tools" ~> replPc = "streaming"
  /\ [][(replPc = "tools" /\ toolPc = "idle" /\ toolPc' # "idle") =>
          /\ toolCall'.name = toolCalls[callIdx].name
          /\ Unparseable(toolCalls[callIdx].arguments) => toolCall'.args = NoArgs]_vars
  /\ [][(replPc = "tools" /\ replPc' # "tools") =>
          LET n == Len(toolCalls)
              asking == Len(history') - n
          IN  /\ replPc' = "streaming"
              /\ asking >= 1
              /\ history'[asking].role = "assistant"
              /\ Len(history'[asking].tool_calls) = n
              /\ \A k \in 1..n :
                   /\ history'[asking + k].role = "tool"
                   /\ history'[asking + k].tool_call_id = toolCalls[k].id
                   /\ toolCalls[k].name \notin ToolNames =>
                        history'[asking + k].content
                          = Str(<<"Unknown tool: ", toolCalls[k].name>>) ]_vars

\* C31 witness: a call of the unknown tool nope with arguments that do not
\* parse, then a call of list_files, have both been answered and the
\* follow-up request is on its way.
C31_Witness ==
  /\ replPc = "streaming"
  /\ round = 2
  /\ Len(history) >= 5
  /\ history[Len(history) - 2].role = "assistant"
  /\ Len(history[Len(history) - 2].tool_calls) = 2
  /\ Unparseable(history[Len(history) - 2].tool_calls[1].arguments)
  /\ history[Len(history) - 1].role = "tool"
  /\ history[Len(history) - 1].content = Str(<<"Unknown tool: ", "nope">>)
  /\ history[Len(history)].role = "tool"

----------------------------------------------------------------------------
(* Claims about search_files *)

\* The files the returned search_files call had to look at, as path texts.
Candidates ==
  LET given == toolCall.args.glob_pattern
  IN  glob([fs |-> fs, touched |-> {}],
           IF given.t = "undef" \/ given.v = <<>> THEN Str(<<"**", "*">>) ELSE given,
           projectRoot, NoFaults).value

\* The lines of a candidate, when the call could read it.
CandidateLines(file) ==
  LET fullPath == join(projectRoot, ParsePath(file))
      node == Node(fs, RealPath(fs, fullPath))
  IN  IF fullPath \in toolLog.skipped \/ node.kind # "file" THEN <<>>
      ELSE SplitText(node.content)

\* 'file:line-number: trimmed-line'
MatchLine(file, i, line) == file \o <<":", ToString(i), ": ">> \o TrimText(line)

\* C18: a successful search_files returns 'No matches found' when no line
\* matches; otherwise its result has one line 'file:line-number:
\* trimmed-line' for each of min(100, number of matching lines) different
\* matching lines, so at most 100, and exactly 100 when more lines match.
C18_SearchCap ==
  (toolPc = "returned" /\ toolCall.name = "search_files" /\ toolResult.success) =>
    LET files == Candidates
        content == [k \in 1..Len(files) |-> CandidateLines(files[k])]
        source == RegExpSource(toolCall.args.pattern)
        matching == {m \in (1..Len(files)) \X (1..ManyLines) :
                       m[2] <= Len(content[m[1]]) /\ RegExpTest(source, content[m[1]][m[2]])}
        wanted == {MatchLine(files[m[1]], m[2], content[m[1]][m[2]]) : m \in matching}
        lines == SplitText(toolResult.result)
    IN  IF matching = {} THEN toolResult.result = <<"No matches found">>
        ELSE /\ Len(lines) = (IF Cardinality(matching) < 100 THEN Cardinality(matching) ELSE 100)
             /\ \A l \in 1..Len(lines) : lines[l] \in wanted
             /\ Cardinality({lines[l] : l \in 1..Len(lines)}) = Len(lines)

\* C18 witness: the long file has more than 100 lines, all matching x, and
\* the search for x has returned 100 lines.
C18_Witness ==
  /\ toolPc = "returned"
  /\ toolCall.name = "search_files"
  /\ toolCall.args.pattern = Str(<<"x">>)
  /\ toolCall.args.glob_pattern = Undefined
  /\ toolResult.success
  /\ fs[<<"proj", "big">>] = File(LongText(ManyLines))
  /\ Len(SplitText(toolResult.result)) = 100

====
